---- MODULE Spec2Model ----
(***************************************************************************)
(* State-machine model of the AI Vox dashboard backend: the relational     *)
(* store (Agent, Call, User rows), the POST /sync-calls routine, the agent *)
(* management handlers, the auth / admin middleware chain with the user    *)
(* management handlers, the superadmin bootstrap and the paginated list    *)
(* endpoints.                                                              *)
(***************************************************************************)
EXTENDS Integers, Sequences, FiniteSets, TLC

VARIABLES
    agents,     \* Agent table: agent_id -> row
    calls,      \* Call table: call_id -> row
    users,      \* User table: id -> row
    now,        \* the wall clock read by new Date() / the store, in ticks
    sync,       \* per process: the POST /sync-calls run in progress
    prev,       \* the summary of the last completed POST /sync-calls run
    runs,       \* number of POST /sync-calls requests still to arrive
    extCalls,   \* the external source: the call records in the sync window
    tokens,     \* the JWTs signed so far (payloads)
    req,        \* the dashboard request between authMiddleware and its route
    boots,      \* number of completed ensureSuperAdmin invocations
    creating,   \* per process: the creation request between its lookup and its write
    stats,      \* the GET /stats request between its four store queries
    resp        \* the last HTTP response (and what the request did)

vars ==
    <<agents, calls, users, now, sync, prev, runs, extCalls, tokens, req, boots, creating,
      stats, resp>>

(***************************************************************************)
(* Bounds of the model.                                                    *)
(***************************************************************************)
MaxClock == 1
MaxFetched == 2
MaxRuns == 2
\* the page size of the drain (the `limit` of getAllCallsInRange), scaled down
PageLimit == 2

(***************************************************************************)
(* Values.                                                                 *)
(***************************************************************************)
NULL == "null"              \* JS null / undefined for a text field
NoNum == 0 - 1              \* JS undefined for a numeric field
AgentIds == {"a1", "a2"}
FilterIds == {"a1"}       \* the agentId filters a sync request carries

\* Joi.number().integer().min(1).max(90).default(30)
MinDays == 1
MaxDays == 90
DefaultDays == 30

EmptyFn == [x \in {} |-> NULL]
NoResp == [route |-> "none"]
\* no dashboard request is past authMiddleware
NoReq == [stage |-> "none"]
\* the process has no creation request between its lookup and its write
NoCreate == [kind |-> "none"]
NoStats == [pc |-> "idle", done |-> {}, totalAgents |-> 0, activeAgents |-> 0,
            totalCalls |-> 0, totalCost |-> NoNum]

RECURSIVE SeqToSet(_)
SeqToSet(s) == IF s = <<>> THEN {} ELSE {Head(s)} \cup SeqToSet(Tail(s))

(***************************************************************************)
(* The external source (Retell).  A call record as /list-calls returns it; *)
(* the source may omit fields (an ongoing call has no end_timestamp and no *)
(* duration_ms) and reports duration_ms itself.                            *)
(***************************************************************************)
ExtCall(cid, aid, st, en, dur, cost, status, successful, transcript, caller, summary) ==
    [call_id |-> cid, agent_id |-> aid, start_timestamp |-> st,
     end_timestamp |-> en, duration_ms |-> dur, cost |-> cost,
     call_status |-> status, call_successful |-> successful,
     transcript |-> transcript, caller_info |-> caller, call_summary |-> summary]

ExtCalls ==
    { ExtCall("c1", "a1", 1000, 3500, 2500, 3, "ended", "true", "Hello", "Anna",
              "Billing"),
      ExtCall("c2", "a2", 2000, 3000, 900, NoNum, "error", NULL, NULL, NULL, NULL),
      ExtCall("c3", "a1", 4000, NoNum, NoNum, NoNum, "ongoing", NULL, NULL, NULL, NULL) }

\* What getAgents can return: agent_id, agent_name (may be missing), is_published.
ExtAgent(aid, name, pub) == [agent_id |-> aid, agent_name |-> name, is_published |-> pub]

Rosters ==
    { <<>>,
      <<ExtAgent("a1", NULL, FALSE), ExtAgent("a2", "Beta", TRUE)>> }

(***************************************************************************)
(* Errors and the central error handler.                                   *)
(***************************************************************************)
\* err.status is modelled where it is a number; the "fail" / "error" text an
\* AppError carries there is read by nothing, its statusCode being set
AppError(name, message, statusCode) ==
    [name |-> name, message |-> message, statusCode |-> statusCode, status |-> NoNum,
     code |-> NULL]

ValidationError(message) == AppError("ValidationError", message, 400)
UnauthorizedError(message) == AppError("UnauthorizedError", message, 401)
ForbiddenError(message) == AppError("ForbiddenError", message, 403)
NotFoundError(message) == AppError("NotFoundError", message, 404)
\* a plain Error: no statusCode, no code
PlainError(message) == AppError("Error", message, NoNum)
\* an error thrown by the store client, with its code (P2002, P2003, P2025, ...)
StoreError(code) ==
    [name |-> "PrismaClientKnownRequestError", message |-> "store error",
     statusCode |-> NoNum, status |-> NoNum, code |-> code]
\* an error of the body parser (express.json): it carries its HTTP status in
\* both statusCode and status
HttpError(name, message, status) ==
    [name |-> name, message |-> message, statusCode |-> status, status |-> status,
     code |-> NULL]

\* the error handler, the mutation: the status is the one the error carries,
\* whatever its name and code
errorHandlerByStatusCode(err, production) ==
    [status |-> IF err.statusCode # NoNum THEN err.statusCode ELSE 500,
     body |-> [error |-> TRUE, message |-> err.message]]

\* errorHandler(err, req, res, next): the status and the body it sends
errorHandler(err, production) ==
    LET statusCode0 == IF err.statusCode # NoNum THEN err.statusCode
                       ELSE IF err.status # NoNum THEN err.status ELSE 500
        message0 == IF err.message # "" THEN err.message ELSE "Internal Server Error"
        statusCode ==
            CASE err.name = "ValidationError" -> 400
              [] err.name = "UnauthorizedError" -> 401
              [] err.name = "ForbiddenError" -> 403
              [] err.name = "NotFoundError" -> 404
              [] err.code = "P2002" -> 409
              [] err.code = "P2025" -> 404
              [] OTHER -> statusCode0
        message1 ==
            CASE err.name = "ValidationError" -> "Validation Error"
              [] err.name = "UnauthorizedError" -> "Unauthorized"
              [] err.name = "ForbiddenError" -> "Forbidden"
              [] err.name = "NotFoundError" -> "Not Found"
              [] err.code = "P2002" -> "Resource already exists"
              [] err.code = "P2025" -> "Resource not found"
              [] OTHER -> message0
        message == IF production /\ statusCode = 500
                   THEN "Internal Server Error" ELSE message1
    IN [status |-> statusCode, body |-> [error |-> TRUE, message |-> message]]

(***************************************************************************)
(* The store.  agent_id, call_id and email are unique keys (the handlers   *)
(* address rows by them with findUnique / upsert); Call.agent_id refers to *)
(* an Agent row.  An Agent row is modelled by its agent_name and status;   *)
(* no decision modelled here reads its created_at / updated_at.            *)
(***************************************************************************)
Put(f, k, v) == [x \in DOMAIN f \cup {k} |-> IF x = k THEN v ELSE f[x]]
Drop(f, k) == [x \in DOMAIN f \ {k} |-> f[x]]

\* the Call -> Agent relation: a Call row can be written only for a stored Agent
ForeignKeyOk(ags, agentId) == agentId \in DOMAIN ags

\* the Agent upsert, the mutation: the update branch writes the placeholder name
SyncCallsAgentRename(ags, agentId, agentName) ==
    IF agentId \in DOMAIN ags
    THEN Put(ags, agentId, [ags[agentId] EXCEPT !.agent_name = "Agent " \o agentId])
    ELSE Put(ags, agentId, [agent_name |-> agentName, status |-> "ACTIVE"])

\* the Agent upsert, the mutation: the update branch writes status ACTIVE too
SyncCallsAgentReactivate(ags, agentId, agentName) ==
    Put(ags, agentId, [agent_name |-> agentName, status |-> "ACTIVE"])

\* prisma.agent.upsert of POST /sync-calls
SyncCallsAgentUpsert(ags, agentId, agentName) ==
    IF agentId \in DOMAIN ags
    THEN Put(ags, agentId, [ags[agentId] EXCEPT !.agent_name = agentName])
    ELSE Put(ags, agentId, [agent_name |-> agentName, status |-> "ACTIVE"])

\* prisma.call.upsert({where: {call_id}, update: callData, create: callData});
\* created_at is set when the row is created, updated_at on every write
CallUpsert(cls, callData, t) ==
    LET row == [agent_id |-> callData.agent_id,
                start_timestamp |-> callData.start_timestamp,
                end_timestamp |-> callData.end_timestamp,
                duration_ms |-> callData.duration_ms,
                duration_seconds |-> callData.duration_seconds,
                cost |-> callData.cost,
                call_status |-> callData.call_status,
                call_successful |-> callData.call_successful,
                transcript |-> callData.transcript,
                caller_info |-> callData.caller_info,
                call_summary |-> callData.call_summary,
                created_at |-> IF callData.call_id \in DOMAIN cls
                               THEN cls[callData.call_id].created_at ELSE t,
                updated_at |-> t]
    IN Put(cls, callData.call_id, row)

(***************************************************************************)
(* POST /api/dashboard/sync-calls                                          *)
(***************************************************************************)
Procs == {1, 2}

IdleSync ==
    [pc |-> "idle", agentId |-> NULL, rosterOk |-> TRUE, agentMap |-> EmptyFn,
     requests |-> <<>>, fetched |-> <<>>,
     filteredCalls |-> <<>>, uniqueAgentIds |-> <<>>, i |-> 1, j |-> 1,
     syncedCount |-> 0, updatedCount |-> 0, errorCount |-> 0]

\* syncCallsSchema: days integer in [1, 90] (default 30), agentId a non-empty string
SyncCallsBodyValid(days, agentId) ==
    /\ days = NoNum \/ (days >= MinDays /\ days <= MaxDays)
    /\ agentId # ""

\* agentMap.set(agent.agent_id, {agent_name: agent.agent_name || `Agent ${id}`})
RECURSIVE AgentMapOf(_)
AgentMapOf(roster) ==
    IF roster = <<>> THEN EmptyFn
    ELSE LET a == roster[Len(roster)]
             front == AgentMapOf(SubSeq(roster, 1, Len(roster) - 1))
         IN Put(front, a.agent_id,
                IF a.agent_name # NULL THEN a.agent_name ELSE "Agent " \o a.agent_id)

\* the external source's answer to POST /list-calls {limit, start_after}: up to
\* `limit` records, starting after the record the cursor names
ListCalls(source, limit, startAfter) ==
    LET from == IF startAfter = NULL THEN 1
                ELSE 1 + CHOOSE k \in 1 .. Len(source) : source[k].call_id = startAfter
        to == IF from + limit - 1 < Len(source) THEN from + limit - 1 ELSE Len(source)
    IN SubSeq(source, from, to)

\* the cursor, the mutation: the call_id of the first record of the page
FirstCursor(page) == page[1].call_id

\* startAfter = calls[calls.length - 1].call_id
NextCursor(page) == page[Len(page)].call_id

\* the drain, the mutation: a failed page fetch ends the loop and the records
\* fetched so far are returned
DrainPartial(requests, allCalls) ==
    [ok |-> TRUE, calls |-> allCalls, requests |-> requests]

\* catch (error) { ...; throw error; }: allCalls is lost with the frame
DrainFailure(requests, allCalls) ==
    [ok |-> FALSE, calls |-> <<>>, requests |-> requests]

\* hasMore, the mutation: the loop goes on until a page comes back empty
HasMoreUntilEmpty(page, limit) == Len(page) > 0

\* hasMore = calls.length === limit && calls.length > 0
HasMore(page, limit) == Len(page) = limit /\ Len(page) > 0

\* getAllCallsInRange(startDate, endDate, limit = 100): the while (hasMore) loop
\* from the cursor startAfter on, allCalls holding the pages fetched so far and
\* `requests` the page requests made so far; the request number failAt throws
RECURSIVE getAllCallsInRange(_, _, _, _, _, _)
getAllCallsInRange(source, limit, failAt, startAfter, allCalls, requests) ==
    IF Len(requests) + 1 = failAt
    THEN DrainFailure(Append(requests, [startAfter |-> startAfter, page |-> <<>>,
                                        failed |-> TRUE]),
                      allCalls)
    ELSE LET page == ListCalls(source, limit, startAfter)
             made == Append(requests, [startAfter |-> startAfter, page |-> page,
                                       failed |-> FALSE])
             hasMore == HasMore(page, limit)
         IN IF hasMore
            THEN getAllCallsInRange(source, limit, failAt, NextCursor(page),
                                    allCalls \o page, made)
            ELSE [ok |-> TRUE, calls |-> allCalls \o page, requests |-> made]

\* the agent filter, the mutation: the filter is ignored
NoFilter(fetched, agentId) == fetched

\* calls.filter((call) => call.agent_id === agentId), or all calls without a filter
FilterCalls(fetched, agentId) ==
    IF agentId = NULL THEN fetched
    ELSE SelectSeq(fetched, LAMBDA c : c.agent_id = agentId)

\* [...new Set(filteredCalls.map((call) => call.agent_id))]: first occurrences, in order
RECURSIVE UniqueAgentIds(_)
UniqueAgentIds(cs) ==
    IF cs = <<>> THEN <<>>
    ELSE LET front == UniqueAgentIds(SubSeq(cs, 1, Len(cs) - 1))
             a == cs[Len(cs)].agent_id
         IN IF a \in SeqToSet(front) THEN front ELSE Append(front, a)

\* the agent's name, the mutation: an agent missing from the map is named by
\* its bare id
AgentNameRaw(agentMap, agentId) ==
    IF agentId \in DOMAIN agentMap THEN agentMap[agentId] ELSE agentId

\* const agentName = agentInfo ? agentInfo.agent_name : `Agent ${agentId}`
AgentNameFor(agentMap, agentId) ==
    IF agentId \in DOMAIN agentMap THEN agentMap[agentId] ELSE "Agent " \o agentId

\* BigInt(undefined) throws; a missing duration_ms makes duration_seconds NaN,
\* which the store refuses
CallDataThrows(call) ==
    \/ call.start_timestamp = NoNum
    \/ call.end_timestamp = NoNum
    \/ call.duration_ms = NoNum

\* the callData object, the mutation: the duration is derived from the timestamps
CallDataDerived(call) ==
    [call_id |-> call.call_id,
     agent_id |-> call.agent_id,
     start_timestamp |-> call.start_timestamp,
     end_timestamp |-> call.end_timestamp,
     duration_ms |-> call.end_timestamp - call.start_timestamp,
     duration_seconds |-> (call.end_timestamp - call.start_timestamp) \div 1000,
     cost |-> IF call.cost = NoNum THEN 0 ELSE call.cost,
     call_status |-> call.call_status,
     call_successful |-> (call.call_successful = "true"),
     transcript |-> call.transcript,
     caller_info |-> call.caller_info,
     call_summary |-> call.call_summary]

\* the callData object built from one external record
CallDataOf(call) ==
    [call_id |-> call.call_id,
     agent_id |-> call.agent_id,
     start_timestamp |-> call.start_timestamp,
     end_timestamp |-> call.end_timestamp,
     duration_ms |-> call.duration_ms,
     duration_seconds |-> call.duration_ms \div 1000,
     cost |-> IF call.cost = NoNum THEN 0 ELSE call.cost,
     call_status |-> call.call_status,
     call_successful |-> (call.call_successful = "true"),
     transcript |-> call.transcript,
     caller_info |-> call.caller_info,
     call_summary |-> call.call_summary]

\* the loops, the mutation: the first failed record ends the call loop
SyncPcAbort(s) ==
    IF s.i <= Len(s.uniqueAgentIds) THEN "agents"
    ELSE IF s.j <= Len(s.filteredCalls) /\ s.errorCount = 0 THEN "calls" ELSE "respond"

\* the mutation: the call loop runs before the agent loop
SyncPcCallsFirst(s) ==
    IF s.j <= Len(s.filteredCalls) THEN "calls"
    ELSE IF s.i <= Len(s.uniqueAgentIds) THEN "agents" ELSE "respond"

\* where the run continues after its loops' current positions
SyncPc(s) ==
    IF s.i <= Len(s.uniqueAgentIds) THEN "agents"
    ELSE IF s.j <= Len(s.filteredCalls) THEN "calls" ELSE "respond"

NoRun ==
    [ran |-> FALSE, agentId |-> NULL, rosterOk |-> TRUE, fetched |-> 0, filtered |-> 0,
     errors |-> 0]

SyncSummary(s) ==
    [ran |-> TRUE, agentId |-> s.agentId, rosterOk |-> s.rosterOk,
     fetched |-> Len(s.fetched), filtered |-> Len(s.filteredCalls),
     errors |-> s.errorCount]

\* validation, the roster fetch, the drain and the agent filter
SyncStart(p) ==
    /\ sync[p].pc = "idle"
    /\ runs > 0
    /\ runs' = runs - 1
    /\ \E days \in {NoNum, 0, 91}, agentId \in {NULL, ""} \cup FilterIds,
          rosterOk \in BOOLEAN, roster \in Rosters,
          failAt \in 0 .. (Len(extCalls) \div PageLimit) + 1, production \in BOOLEAN :
        LET drain == getAllCallsInRange(extCalls, PageLimit, failAt, NULL, <<>>, <<>>)
            fetched == drain.calls
        IN
        IF ~SyncCallsBodyValid(days, agentId)
        THEN /\ resp' = [route |-> "sync-calls", requests |-> <<>>] @@
                        errorHandler(ValidationError("invalid body"), production)
             /\ UNCHANGED <<sync, prev>>
        ELSE IF ~drain.ok
        THEN /\ resp' = [route |-> "sync-calls", requests |-> drain.requests] @@
                        errorHandler(PlainError("Failed to fetch calls"), production)
             /\ UNCHANGED <<sync, prev>>
        ELSE IF fetched = <<>>
        THEN /\ resp' = [route |-> "sync-calls", requests |-> drain.requests,
                         status |-> 200,
                         body |-> [success |-> TRUE,
                                   message |-> "No calls found in the specified date range",
                                   callsSynced |-> 0]]
             /\ prev' = SyncSummary([IdleSync EXCEPT !.agentId = agentId,
                                                     !.rosterOk = rosterOk])
             /\ UNCHANGED sync
        ELSE LET filtered == FilterCalls(fetched, agentId)
                 s0 == [IdleSync EXCEPT
                          !.agentId = agentId,
                          !.rosterOk = rosterOk,
                          !.agentMap = IF rosterOk THEN AgentMapOf(roster) ELSE EmptyFn,
                          !.requests = drain.requests,
                          !.fetched = fetched,
                          !.filteredCalls = filtered,
                          !.uniqueAgentIds = UniqueAgentIds(filtered)]
             IN /\ sync' = [sync EXCEPT ![p] = [s0 EXCEPT !.pc = SyncPc(s0)]]
                /\ resp' = NoResp
                /\ UNCHANGED prev
    /\ UNCHANGED <<agents, calls, users, now, extCalls, tokens, req, boots, creating, stats>>

\* one iteration of the agent loop; a failing upsert is logged and skipped
SyncAgentStep(p) ==
    /\ sync[p].pc = "agents"
    /\ LET s == sync[p]
           agentId == s.uniqueAgentIds[s.i]
           s1 == [s EXCEPT !.i = s.i + 1]
       IN \E storeOk \in BOOLEAN :
            IF storeOk
            THEN /\ agents' = SyncCallsAgentUpsert(agents, agentId,
                                  AgentNameFor(s.agentMap, agentId))
                 /\ sync' = [sync EXCEPT ![p] = [s1 EXCEPT !.pc = SyncPc(s1)]]
            ELSE /\ agents' = agents
                 /\ sync' = [sync EXCEPT ![p] = [s1 EXCEPT !.pc = SyncPc(s1)]]
    /\ UNCHANGED <<calls, users, now, prev, runs, extCalls, tokens, req, boots, creating, resp, stats>>

\* one iteration of the call loop; a failure is logged and counted
SyncCallStep(p) ==
    /\ sync[p].pc = "calls"
    /\ LET s == sync[p]
           call == s.filteredCalls[s.j]
           s1 == [s EXCEPT !.j = s.j + 1]
       IN \E storeOk \in BOOLEAN :
            IF storeOk /\ ~CallDataThrows(call) /\ ForeignKeyOk(agents, call.agent_id)
            THEN LET after == CallUpsert(calls, CallDataOf(call), now)
                     result == after[call.call_id]
                     s2 == IF result.created_at = result.updated_at
                           THEN [s1 EXCEPT !.syncedCount = @ + 1]
                           ELSE [s1 EXCEPT !.updatedCount = @ + 1]
                 IN /\ calls' = after
                    /\ sync' = [sync EXCEPT ![p] = [s2 EXCEPT !.pc = SyncPc(s2)]]
            ELSE LET s2 == [s1 EXCEPT !.errorCount = @ + 1]
                 IN /\ calls' = calls
                    /\ sync' = [sync EXCEPT ![p] = [s2 EXCEPT !.pc = SyncPc(s2)]]
    /\ UNCHANGED <<agents, users, now, prev, runs, extCalls, tokens, req, boots, creating, resp, stats>>

\* res.json({success: true, message: "Call sync completed", ...})
SyncFinish(p) ==
    /\ sync[p].pc = "respond"
    /\ resp' = [route |-> "sync-calls", requests |-> sync[p].requests, status |-> 200,
                body |-> [success |-> TRUE, message |-> "Call sync completed",
                          callsSynced |-> sync[p].syncedCount,
                          callsUpdated |-> sync[p].updatedCount,
                          errors |-> sync[p].errorCount]]
    /\ prev' = SyncSummary(sync[p])
    /\ sync' = [sync EXCEPT ![p] = IdleSync]
    /\ UNCHANGED <<agents, calls, users, now, runs, extCalls, tokens, req, boots, creating, stats>>

(***************************************************************************)
(* Agent management: POST / PUT / DELETE /api/dashboard/agents and         *)
(* POST /api/dashboard/sync-agents                                         *)
(***************************************************************************)
AgentStatuses == {"ACTIVE", "INACTIVE"}

\* createAgentSchema: agent_id and agent_name required, status ACTIVE | INACTIVE
CreateAgentBodyValid(agent_id, agent_name, status) ==
    /\ agent_id # NULL
    /\ agent_name # NULL
    /\ status = NULL \/ status \in AgentStatuses

\* updateAgentSchema: both fields optional, status ACTIVE | INACTIVE
UpdateAgentBodyValid(agent_name, status) ==
    status = NULL \/ status \in AgentStatuses

\* prisma.agent.create({data: {agent_id, agent_name, status: status || "ACTIVE"}})
AgentCreate(ags, agent_id, agent_name, status) ==
    Put(ags, agent_id, [agent_name |-> agent_name,
                        status |-> IF status = NULL THEN "ACTIVE" ELSE status])

\* prisma.agent.update({where: {agent_id}, data: value}): only the given fields
AgentUpdate(ags, agentId, agent_name, status) ==
    Put(ags, agentId,
        [agent_name |-> IF agent_name = NULL THEN ags[agentId].agent_name ELSE agent_name,
         status |-> IF status = NULL THEN ags[agentId].status ELSE status])

\* DELETE /agents/:agentId, the mutation: the row is deleted
DeleteAgentHard(ags, agentId) == Drop(ags, agentId)

\* DELETE /agents/:agentId: prisma.agent.update({data: {status: "INACTIVE"}})
DeleteAgentWrite(ags, agentId) ==
    Put(ags, agentId, [ags[agentId] EXCEPT !.status = "INACTIVE"])

\* POST /sync-agents, the mutation: the table is replaced by the roster
SyncAgentsMirror(ags, agent) ==
    Put(EmptyFn, agent.agent_id,
        [agent_name |-> agent.agent_id,
         status |-> IF agent.is_published THEN "ACTIVE" ELSE "INACTIVE"])

\* prisma.agent.upsert of POST /sync-agents
SyncAgentsUpsert(ags, agent) ==
    Put(ags, agent.agent_id,
        [agent_name |-> IF agent.agent_name # NULL THEN agent.agent_name
                        ELSE "Agent " \o agent.agent_id,
         status |-> IF agent.is_published THEN "ACTIVE" ELSE "INACTIVE"])

\* the loop of POST /sync-agents over the roster; the upserts at the indices in
\* `failing` throw and are counted
RECURSIVE SyncAgentsLoop(_, _, _)
SyncAgentsLoop(ags, roster, failing) ==
    IF roster = <<>> THEN ags
    ELSE LET front == SyncAgentsLoop(ags, SubSeq(roster, 1, Len(roster) - 1), failing)
         IN IF Len(roster) \in failing THEN front
            ELSE SyncAgentsUpsert(front, roster[Len(roster)])

CreateAgent ==
    /\ \E agent_id \in AgentIds \cup {NULL}, agent_name \in {"Gamma", NULL},
          status \in {NULL, "INACTIVE", "PAUSED"}, production \in BOOLEAN :
        IF ~CreateAgentBodyValid(agent_id, agent_name, status)
        THEN /\ resp' = [route |-> "POST /agents"] @@
                        errorHandler(ValidationError("invalid body"), production)
             /\ agents' = agents
        ELSE IF agent_id \in DOMAIN agents
        THEN /\ resp' = [route |-> "POST /agents"] @@
                        errorHandler(ValidationError("Agent with this ID already exists"),
                                     production)
             /\ agents' = agents
        ELSE /\ agents' = AgentCreate(agents, agent_id, agent_name, status)
             /\ resp' = [route |-> "POST /agents", status |-> 201,
                         body |-> [success |-> TRUE, data |-> agent_id]]
    /\ req' = NoReq
    /\ UNCHANGED <<calls, users, now, sync, prev, runs, extCalls, tokens, boots, creating, stats>>

UpdateAgent ==
    /\ \E agentId \in AgentIds, agent_name \in {"Gamma", NULL},
          status \in {NULL, "ACTIVE", "INACTIVE", "PAUSED"}, production \in BOOLEAN :
        IF ~UpdateAgentBodyValid(agent_name, status)
        THEN /\ resp' = [route |-> "PUT /agents"] @@
                        errorHandler(ValidationError("invalid body"), production)
             /\ agents' = agents
        ELSE IF agentId \notin DOMAIN agents
        THEN /\ resp' = [route |-> "PUT /agents"] @@
                        errorHandler(NotFoundError("Agent with ID " \o agentId \o " not found"),
                                     production)
             /\ agents' = agents
        ELSE /\ agents' = AgentUpdate(agents, agentId, agent_name, status)
             /\ resp' = [route |-> "PUT /agents", status |-> 200,
                         body |-> [success |-> TRUE, data |-> agentId]]
    /\ req' = NoReq
    /\ UNCHANGED <<calls, users, now, sync, prev, runs, extCalls, tokens, boots, creating, stats>>

DeleteAgent ==
    /\ \E agentId \in AgentIds, production \in BOOLEAN :
        IF agentId \notin DOMAIN agents
        THEN /\ resp' = [route |-> "DELETE /agents"] @@
                        errorHandler(NotFoundError("Agent with ID " \o agentId \o " not found"),
                                     production)
             /\ agents' = agents
        ELSE /\ agents' = DeleteAgentWrite(agents, agentId)
             /\ resp' = [route |-> "DELETE /agents", status |-> 200,
                         body |-> [success |-> TRUE,
                                   message |-> "Agent deactivated successfully",
                                   data |-> agentId]]
    /\ req' = NoReq
    /\ UNCHANGED <<calls, users, now, sync, prev, runs, extCalls, tokens, boots, creating, stats>>

SyncAgents ==
    /\ \E rosterOk \in BOOLEAN, roster \in Rosters, production \in BOOLEAN :
        IF ~rosterOk
        THEN /\ resp' = [route |-> "sync-agents"] @@
                        errorHandler(PlainError("Failed to fetch agents"), production)
             /\ agents' = agents
        ELSE IF roster = <<>>
        THEN /\ resp' = [route |-> "sync-agents", status |-> 200,
                         body |-> [success |-> TRUE,
                                   message |-> "No agents found in Retell API",
                                   agentsSynced |-> 0]]
             /\ agents' = agents
        ELSE \E failing \in SUBSET (1 .. Len(roster)) :
             /\ agents' = SyncAgentsLoop(agents, roster, failing)
             /\ resp' = [route |-> "sync-agents", status |-> 200,
                         body |-> [success |-> TRUE, message |-> "Agent sync completed",
                                   errors |-> Cardinality(failing)]]
    /\ req' = NoReq
    /\ UNCHANGED <<calls, users, now, sync, prev, runs, extCalls, tokens, boots, creating, stats>>

\* the external source records another call in the window
ExtNewCall ==
    /\ Len(extCalls) < MaxFetched
    /\ \E c \in ExtCalls :
        /\ \A k \in 1 .. Len(extCalls) : extCalls[k].call_id # c.call_id
        /\ extCalls' = Append(extCalls, c)
    /\ UNCHANGED <<agents, calls, users, now, sync, prev, runs, tokens, req, boots, creating, resp, stats>>

\* time passes
Tick ==
    /\ now < MaxClock
    /\ now' = now + 1
    /\ UNCHANGED <<agents, calls, users, sync, prev, runs, extCalls, tokens, req, boots,
                   creating, resp, stats>>

Init ==
    /\ agents = EmptyFn
    /\ calls = EmptyFn
    /\ users = EmptyFn
    /\ now = 0
    /\ sync = [p \in Procs |-> IdleSync]
    /\ prev = NoRun
    /\ runs = MaxRuns
    /\ extCalls = <<>>
    /\ tokens = {}
    /\ req = NoReq
    /\ boots = 0
    /\ creating = [p \in Procs |-> NoCreate]
    /\ stats = NoStats
    /\ resp = NoResp

Next ==
    \/ SyncStart(1)
    \/ SyncAgentStep(1)
    \/ SyncCallStep(1)
    \/ SyncFinish(1)
    \/ ExtNewCall
    \/ Tick

Spec == Init /\ [][Next]_vars

\* the agent management handlers together with one run of the sync routine
\* over two calls of two agents
InitAgents ==
    /\ agents = EmptyFn
    /\ calls = EmptyFn
    /\ users = EmptyFn
    /\ now = 0
    /\ sync = [p \in Procs |-> IdleSync]
    /\ prev = NoRun
    /\ runs = 1
    /\ extCalls = << ExtCall("c1", "a1", 1000, 3500, 2500, 3, "ended", "true", "Hello", "Anna",
              "Billing"),
                     ExtCall("c2", "a2", 2000, 3000, 900, NoNum, "error", NULL, NULL, NULL, NULL) >>
    /\ tokens = {}
    /\ req = NoReq
    /\ boots = 0
    /\ creating = [p \in Procs |-> NoCreate]
    /\ stats = NoStats
    /\ resp = NoResp

NextAgents ==
    \/ SyncStart(1)
    \/ SyncAgentStep(1)
    \/ SyncCallStep(1)
    \/ SyncFinish(1)
    \/ CreateAgent
    \/ UpdateAgent
    \/ DeleteAgent
    \/ SyncAgents

SpecAgents == InitAgents /\ [][NextAgents]_vars

\* POST /sync-calls requests served concurrently, one per process, over an
\* external source that holds zero to three records and does not change
SyncSource ==
    << ExtCall("c1", "a1", 1000, 3500, 2500, 3, "ended", "true", "Hello", "Anna", "Billing"),
       ExtCall("c2", "a2", 2000, 3000, 900, NoNum, "error", NULL, NULL, NULL, NULL),
       ExtCall("c3", "a1", 4000, NoNum, NoNum, NoNum, "ongoing", NULL, NULL, NULL, NULL) >>

InitSyncCalls ==
    /\ agents = EmptyFn
    /\ calls = EmptyFn
    /\ users = EmptyFn
    /\ now = 0
    /\ sync = [p \in Procs |-> IdleSync]
    /\ prev = NoRun
    /\ runs = Cardinality(Procs)
    /\ \E k \in 0 .. Len(SyncSource) : extCalls = SubSeq(SyncSource, 1, k)
    /\ tokens = {}
    /\ req = NoReq
    /\ boots = 0
    /\ creating = [p \in Procs |-> NoCreate]
    /\ stats = NoStats
    /\ resp = NoResp

NextSyncCalls ==
    \/ \E p \in Procs : SyncStart(p)
    \/ \E p \in Procs : SyncAgentStep(p)
    \/ \E p \in Procs : SyncCallStep(p)
    \/ \E p \in Procs : SyncFinish(p)
    \/ Tick

SpecSyncCalls == InitSyncCalls /\ [][NextSyncCalls]_vars

(***************************************************************************)
(* Properties of the sync routine and of the agent handlers.               *)
(***************************************************************************)

\* C1: in every reachable state every stored Call's agent_id is the agent_id
\* of a stored Agent; a step that writes a Call row leaves the Agent table as
\* it is, so the Agent row exists at the moment of the write.
C1_CallsReferToStoredAgents ==
    \A c \in DOMAIN calls : calls[c].agent_id \in DOMAIN agents

\* a run has written the calls of two agents
C1_Witness ==
    /\ sync[1].pc = "respond"
    /\ {calls[c].agent_id : c \in DOMAIN calls} = {"a1", "a2"}

\* the run in progress repeats the last completed run: same filter, same
\* records fetched (the source only appends), and that run stored every record
RepeatsPrev ==
    /\ sync[1].pc \in {"agents", "calls", "respond"}
    /\ prev.ran
    /\ prev.agentId = sync[1].agentId
    /\ prev.fetched = Len(sync[1].fetched)
    /\ prev.errors = 0

\* C2 (as claimed): a run that repeats the previous one creates no Agent row
\* and no Call row, and reports callsSynced = 0 and callsUpdated <= the
\* number of records fetched.
C2_SecondRunCreatesNothing ==
    [][ RepeatsPrev =>
          /\ DOMAIN calls' = DOMAIN calls
          /\ DOMAIN agents' = DOMAIN agents
          /\ sync[1].pc = "respond" =>
                /\ sync[1].syncedCount = 0
                /\ sync[1].updatedCount <= Len(sync[1].fetched) ]_vars

\* the stored Call row and the external record of the same call_id
ExtRecordOf(c) == CHOOSE x \in ExtCalls : x.call_id = c

C9_AgentsPersist ==
    [][ /\ DOMAIN agents \subseteq DOMAIN agents'
        /\ (resp' # resp /\ resp'.route = "DELETE /agents" /\ resp'.status = 200) =>
              /\ resp'.body.data \in DOMAIN agents
              /\ agents' = [agents EXCEPT ![resp'.body.data].status = "INACTIVE"] ]_vars

\* an agent that has calls has been deleted and is still stored, INACTIVE
C9_Witness ==
    /\ resp.route = "DELETE /agents"
    /\ resp.status = 200
    /\ agents[resp.body.data].status = "INACTIVE"
    /\ \E c \in DOMAIN calls : calls[c].agent_id = resp.body.data


(***************************************************************************)
(* Authentication.  Header values and tokens are strings, so that the      *)
(* "Bearer " prefix test, the slice and the comparison with the configured *)
(* key are computed as the middleware computes them.                       *)
(***************************************************************************)
UserIds == {"u1", "u2", "u3"}

\* process.env: API_AUTH_KEY and JWT_SECRET may be unset, NODE_ENV may be production
ApiKey == "key-1"
JwtSecret == "secret-1"
Envs == [API_AUTH_KEY : {ApiKey, NULL}, JWT_SECRET : {JwtSecret, NULL},
         production : BOOLEAN]

\* JavaScript truthiness of an optional string
Truthy(x) == x # NULL /\ x # ""

\* jwt.sign(payload, secret): the token text of a payload {sub, role}
JwtSign(payload) == "jwt." \o payload.sub \o "." \o payload.role

\* signToken(payload): throws when JWT_SECRET is not configured
signToken(payload, env) ==
    IF ~Truthy(env.JWT_SECRET)
    THEN [ok |-> FALSE, token |-> NULL]
    ELSE [ok |-> TRUE, token |-> JwtSign(payload)]

\* jwt.verify(token, secret): the token must have been signed here and not be
\* past its 7 days
JwtVerifies(token, expired) ==
    /\ ~expired
    /\ \E t \in tokens : t.token = token

JwtDecode(token) ==
    LET t == CHOOSE t \in tokens : t.token = token
    IN [id |-> t.sub, role |-> t.role]

NoUser == [id |-> NULL, role |-> NULL]
NoError == AppError("none", "", NoNum)

\* const bearerToken = authHeader && authHeader.startsWith("Bearer ") ? authHeader.slice(7) : null
BearerTokenOf(authorization) ==
    IF /\ Truthy(authorization)
       /\ Len(authorization) >= Len("Bearer ")
       /\ SubSeq(authorization, 1, Len("Bearer ")) = "Bearer "
    THEN SubSeq(authorization, 8, Len(authorization))
    ELSE NULL

\* const providedKey = req.headers["x-api-key"] || bearerToken
BearerOnlyKey(xApiKey, bearerToken) == xApiKey
ProvidedKey(xApiKey, bearerToken) ==
    IF Truthy(xApiKey) THEN xApiKey ELSE bearerToken

\* authMiddleware(req, res, next): how the request leaves the middleware.
\*   "config"   - answered 500 by the middleware itself
\*   "rejected" - next(error) with an UnauthorizedError
\*   "token"    - next() with req.user set from the token
\*   "key"      - next() with no req.user
authMiddleware(headers, env, expired) ==
    LET bearerToken == BearerTokenOf(headers.authorization)
        providedKey == ProvidedKey(headers.xApiKey, bearerToken)
    IN IF ~Truthy(env.API_AUTH_KEY)
       THEN [outcome |-> "config", user |-> NoUser, err |-> NoError]
       ELSE IF ~Truthy(bearerToken) /\ ~Truthy(headers.xApiKey)
       THEN [outcome |-> "rejected", user |-> NoUser,
             err |-> UnauthorizedError("API key required")]
       ELSE IF /\ Truthy(bearerToken) /\ Truthy(env.JWT_SECRET)
               /\ JwtVerifies(bearerToken, expired)
       THEN [outcome |-> "token", user |-> JwtDecode(bearerToken), err |-> NoError]
       ELSE IF providedKey # env.API_AUTH_KEY
       THEN [outcome |-> "rejected", user |-> NoUser,
             err |-> UnauthorizedError("Invalid credentials")]
       ELSE [outcome |-> "key", user |-> NoUser, err |-> NoError]

\* adminMiddleware(req, res, next): the error it passes on, or NoError
AnyRoleGate(user) == IF ~Truthy(user.id)
                     THEN UnauthorizedError("Authentication required")
                     ELSE NoError
adminMiddleware(user) ==
    IF ~Truthy(user.id)
    THEN UnauthorizedError("Authentication required")
    ELSE IF user.role # "ADMIN"
    THEN ForbiddenError("Admin access required")
    ELSE NoError


(***************************************************************************)
(* The User table and the public auth routes.                              *)
(***************************************************************************)
MaxBoots == 2
MaxTokens == 1

MinPassword == 8
MaxPassword == 128
MaxName == 120

SuperEmail == "root@x.io"
SuperPassword == "rootpassword"
DefaultSuperName == "Super Admin"
\* the column defaults of a newly created User row
DefaultRole == "USER"
DefaultStatus == "PENDING"

\* bcrypt.hash / bcrypt.compare
Hash(password) == "bcrypt(" \o password \o ")"
Compare(password, passwordHash) == passwordHash = Hash(password)

IsSubstring(part, str) ==
    \E i \in 1..(Len(str) - Len(part) + 1) : SubSeq(str, i, i + Len(part) - 1) = part

\* Joi.string().email(): a local part, an "@" and a dotted domain
IsEmail(str) ==
    /\ Truthy(str)
    /\ IsSubstring("@", str) /\ IsSubstring(".", str)
    /\ SubSeq(str, 1, 1) # "@"

RECURSIVE Trim(_)
Trim(str) ==
    IF Len(str) = 0 THEN str
    ELSE IF SubSeq(str, 1, 1) = " " THEN Trim(SubSeq(str, 2, Len(str)))
    ELSE IF SubSeq(str, Len(str), Len(str)) = " " THEN Trim(SubSeq(str, 1, Len(str) - 1))
    ELSE str

UserRow(email, passwordHash, name, role, status) ==
    [email |-> email, passwordHash |-> passwordHash, name |-> name,
     role |-> role, status |-> status]

\* prisma.user.findUnique({ where: { email } }): the ids of the rows found
FindNothing(us, email) == {}
FindUserByEmail(us, email) == {id \in DOMAIN us : us[id].email = email}

\* the id the store gives a new row
NewUserId(us) == CHOOSE id \in UserIds \ DOMAIN us : TRUE

\* registerSchema: the first validation message, or NULL
RegisterError(email, password, name) ==
    IF email = NULL THEN "email is required"
    ELSE IF ~IsEmail(email) THEN "Please enter a valid email address"
    ELSE IF password = NULL THEN "password is required"
    ELSE IF Len(password) < MinPassword THEN "Password must be at least 8 characters long"
    ELSE IF Len(password) > MaxPassword THEN "password is too long"
    ELSE IF name # NULL /\ Len(name) > MaxName THEN "name is too long"
    ELSE NULL

\* loginSchema: the first validation message, or NULL
LoginError(email, password) ==
    IF email = NULL THEN "email is required"
    ELSE IF ~IsEmail(email) THEN "Please enter a valid email address"
    ELSE IF password = NULL \/ password = "" THEN "password is required"
    ELSE NULL

TokenOf(id, role) == [token |-> JwtSign([sub |-> id, role |-> role]), sub |-> id, role |-> role]

\* the request bodies sent to POST /register and POST /login
RegisterBodies ==
    {[email |-> SuperEmail, password |-> "password1", name |-> " Bob "],
     [email |-> SuperEmail, password |-> "password1", name |-> ""],
     [email |-> "bob", password |-> "password1", name |-> NULL],
     [email |-> SuperEmail, password |-> "short", name |-> NULL],
     [email |-> NULL, password |-> NULL, name |-> NULL]}
LoginBodies ==
    {[email |-> "ann@x.io", password |-> "password1"],
     [email |-> SuperEmail, password |-> "password1"],
     [email |-> SuperEmail, password |-> SuperPassword],
     [email |-> "ann@x.io", password |-> "guess"],
     [email |-> "ann@x.io", password |-> NULL]}

\* POST /api/auth/register
Register ==
    /\ req = NoReq
    /\ \E body \in RegisterBodies, env \in {e \in Envs : e.API_AUTH_KEY = ApiKey} :
        LET email == body.email
            password == body.password
            name == body.name
            verr == RegisterError(email, password, name)
            userName == IF Truthy(name) /\ Truthy(Trim(name)) THEN Trim(name) ELSE NULL
            id == NewUserId(users)
            signed == signToken([sub |-> id, role |-> DefaultRole], env)
        IN IF verr # NULL
           THEN /\ resp' = [route |-> "POST /register", params |-> body,
                            reads |-> 0, writes |-> 0] @@
                           errorHandler(ValidationError(verr), env.production)
                /\ UNCHANGED <<users, tokens, req>>
           ELSE IF FindUserByEmail(users, email) # {}
           THEN /\ resp' = [route |-> "POST /register", params |-> body,
                            reads |-> 1, writes |-> 0] @@
                           errorHandler(ValidationError("Email already in use"),
                                        env.production)
                /\ UNCHANGED <<users, tokens, req>>
           ELSE /\ UserIds \ DOMAIN users # {}
                /\ users' = Put(users, id, UserRow(email, Hash(password), userName,
                                                   DefaultRole, DefaultStatus))
                /\ IF signed.ok
                   THEN /\ Cardinality(tokens \cup {TokenOf(id, DefaultRole)}) <= MaxTokens
                        /\ tokens' = tokens \cup {TokenOf(id, DefaultRole)}
                        /\ resp' = [route |-> "POST /register", params |-> body,
                                    reads |-> 1, writes |-> 1, status |-> 201,
                                    body |-> [success |-> TRUE, data |-> id,
                                              token |-> signed.token]]
                   ELSE /\ tokens' = tokens
                        /\ resp' = [route |-> "POST /register", params |-> body,
                                    reads |-> 1, writes |-> 1] @@
                                   errorHandler(PlainError("JWT_SECRET is not configured"),
                                                env.production)
    /\ UNCHANGED <<agents, calls, now, sync, prev, runs, extCalls, req, boots, creating, stats>>

\* POST /api/auth/login
Login ==
    /\ req = NoReq
    /\ \E body \in LoginBodies, env \in {e \in Envs : e.API_AUTH_KEY = ApiKey} :
        LET email == body.email
            password == body.password
            verr == LoginError(email, password)
            found == FindUserByEmail(users, email)
            id == CHOOSE u \in found : TRUE
            signed == signToken([sub |-> id, role |-> users[id].role], env)
        IN IF verr # NULL
           THEN /\ resp' = [route |-> "POST /login", params |-> body,
                            reads |-> 0, writes |-> 0] @@
                           errorHandler(ValidationError(verr), env.production)
                /\ tokens' = tokens
           ELSE IF found = {} \/ ~Compare(password, users[id].passwordHash)
           THEN /\ resp' = [route |-> "POST /login", params |-> body,
                            reads |-> 1, writes |-> 0] @@
                           errorHandler(UnauthorizedError("Invalid credentials"),
                                        env.production)
                /\ tokens' = tokens
           ELSE IF ~signed.ok
           THEN /\ resp' = [route |-> "POST /login", params |-> body,
                            reads |-> 1, writes |-> 0] @@
                           errorHandler(PlainError("JWT_SECRET is not configured"),
                                        env.production)
                /\ tokens' = tokens
           ELSE /\ Cardinality(tokens \cup {TokenOf(id, users[id].role)}) <= MaxTokens
                /\ tokens' = tokens \cup {TokenOf(id, users[id].role)}
                /\ resp' = [route |-> "POST /login", params |-> body,
                            reads |-> 1, writes |-> 0, status |-> 200,
                            body |-> [success |-> TRUE, token |-> signed.token]]
    /\ UNCHANGED <<agents, calls, users, now, sync, prev, runs, extCalls, req, boots, creating, stats>>

(***************************************************************************)
(* The superadmin bootstrap, run when the server starts listening.         *)
(***************************************************************************)
\* the User table after ensureSuperAdmin() ran to completion
ensureSuperAdmin(us, email, password, name) ==
    LET existing == FindUserByEmail(us, email)
        id == CHOOSE u \in existing : TRUE
    IN IF ~Truthy(email) \/ ~Truthy(password) THEN us
       ELSE IF existing # {}
       THEN IF us[id].role # "SUPERADMIN"
            THEN [us EXCEPT ![id].role = "SUPERADMIN", ![id].status = "APPROVED"]
            ELSE us
       ELSE Put(us, NewUserId(us),
                UserRow(email, Hash(password),
                        IF Truthy(name) THEN name ELSE DefaultSuperName,
                        "SUPERADMIN", "APPROVED"))

\* app.listen callback: ensureSuperAdmin().catch(log)
EnsureSuperAdmin ==
    /\ req = NoReq
    /\ boots < MaxBoots
    /\ \E configured \in BOOLEAN, name \in {NULL, "Bob"}, storeOk \in BOOLEAN :
        LET email == IF configured THEN SuperEmail ELSE NULL
            password == IF configured THEN SuperPassword ELSE NULL
        IN IF ~storeOk
           THEN UNCHANGED <<users, boots, creating>>
           ELSE /\ FindUserByEmail(users, email) = {} /\ configured
                   => UserIds \ DOMAIN users # {}
                /\ users' = ensureSuperAdmin(users, email, password, name)
                /\ boots' = IF configured THEN boots + 1 ELSE boots
    /\ UNCHANGED <<agents, calls, now, sync, prev, runs, extCalls, tokens, req, creating, resp, stats>>


(***************************************************************************)
(* Paginated lists.  A query carries limit and offset (NoNum when the      *)
(* parameter is absent) and the route's filters (NULL when absent).        *)
(***************************************************************************)
MinLimit == 1
MaxLimit == 100
DefaultLimit == 20
MinOffset == 0
DefaultOffset == 0

\* limit: Joi.number().integer().min(1).max(100).default(20)
\* offset: Joi.number().integer().min(0).default(0)
\* the mutation: the schema without max(100)
PageQueryNoMax(q) ==
    /\ q.limit = NoNum \/ q.limit >= MinLimit
    /\ q.offset = NoNum \/ q.offset >= MinOffset
PageQueryValid(q) ==
    /\ q.limit = NoNum \/ (q.limit >= MinLimit /\ q.limit <= MaxLimit)
    /\ q.offset = NoNum \/ q.offset >= MinOffset
LimitOf(q) == IF q.limit = NoNum THEN DefaultLimit ELSE q.limit
OffsetOf(q) == IF q.offset = NoNum THEN DefaultOffset ELSE q.offset

\* sortBy: Joi.string().valid("date", "duration", "cost").default("date")
SortByValid(sortBy) == sortBy \in {NULL, "date", "duration", "cost"}
SortByOf(sortBy) == IF sortBy = NULL THEN "date" ELSE sortBy

\* the orderBy column of a call list, row by row
OrderKey(cls, sortBy) ==
    [c \in DOMAIN cls |->
        CASE sortBy = "duration" -> cls[c].duration_seconds
          [] sortBy = "cost" -> cls[c].cost
          [] OTHER -> cls[c].start_timestamp]

\* every enumeration of a set of ids
Perms(ids) ==
    {o \in [1..Cardinality(ids) -> ids] : \A i, j \in DOMAIN o : i # j => o[i] # o[j]}

\* orderBy: { <column>: "desc" }: the orders the store may return rows in,
\* rows with equal keys in any order
DescOrders(ids, key) ==
    {o \in Perms(ids) : \A i, j \in DOMAIN o : i < j => key[o[i]] >= key[o[j]]}

\* skip: offset, take: limit
Page(order, offset, limit) ==
    SubSeq(order, offset + 1, IF Len(order) <= offset + limit THEN Len(order)
                              ELSE offset + limit)

\* the pagination object of a list response
PaginationInclusive(totalCount, limit, offset) ==
    [total |-> totalCount, limit |-> limit, offset |-> offset,
     hasMore |-> offset + limit <= totalCount]
Pagination(totalCount, limit, offset) ==
    [total |-> totalCount, limit |-> limit, offset |-> offset,
     hasMore |-> offset + limit < totalCount]

ListBody(items, totalCount, q) ==
    [success |-> TRUE,
     data |-> [items |-> items,
               pagination |-> Pagination(totalCount, LimitOf(q), OffsetOf(q))]]

\* { contains: query, mode: "insensitive" }
RECURSIVE Lower(_)
Lower(str) ==
    LET upperCase == "ABCDEFGHIJKLMNOPQRSTUVWXYZ"
        lowerCase == "abcdefghijklmnopqrstuvwxyz"
        ch == SubSeq(str, 1, 1)
        at == {i \in 1..Len(upperCase) : SubSeq(upperCase, i, i) = ch}
        lowered == IF at = {} THEN ch
                   ELSE LET i == CHOOSE i \in at : TRUE IN SubSeq(lowerCase, i, i)
    IN IF Len(str) = 0 THEN str
       ELSE lowered \o Lower(SubSeq(str, 2, Len(str)))

ContainsInsensitive(field, query) ==
    field # NULL /\ IsSubstring(Lower(query), Lower(field))

\* the where clauses
CallsWhere(cls, q) ==
    {c \in DOMAIN cls :
        /\ Truthy(q.agentId) => cls[c].agent_id = q.agentId
        /\ Truthy(q.callStatus) => cls[c].call_status = q.callStatus
        /\ q.startDate # NoNum => cls[c].start_timestamp >= q.startDate
        /\ q.endDate # NoNum => cls[c].start_timestamp <= q.endDate}

AgentCallsWhere(cls, agentId) == {c \in DOMAIN cls : cls[c].agent_id = agentId}

SearchCallsWhere(cls, q) ==
    {c \in DOMAIN cls :
        /\ \/ ContainsInsensitive(cls[c].transcript, q.query)
           \/ ContainsInsensitive(cls[c].caller_info, q.query)
           \/ ContainsInsensitive(cls[c].call_summary, q.query)
           \/ ContainsInsensitive(c, q.query)
        /\ Truthy(q.agentId) => cls[c].agent_id = q.agentId}

AgentsWhere(ags, q) ==
    {a \in DOMAIN ags :
        /\ Truthy(q.status) => ags[a].status = q.status
        /\ Truthy(q.search) => \/ ContainsInsensitive(ags[a].agent_name, q.search)
                               \/ ContainsInsensitive(a, q.search)}

SearchAgentsWhere(ags, q) ==
    {a \in DOMAIN ags : \/ ContainsInsensitive(ags[a].agent_name, q.query)
                        \/ ContainsInsensitive(a, q.query)}

UsersWhere(us, q) ==
    {u \in DOMAIN us :
        /\ Truthy(q.role) => us[u].role = q.role
        /\ Truthy(q.search) => \/ ContainsInsensitive(us[u].email, q.search)
                               \/ ContainsInsensitive(us[u].name, q.search)}

\* created_at is not carried by the Agent and User rows of this model: an
\* orderBy on it leaves every order possible
Unordered(rows) == [id \in DOMAIN rows |-> 0]

(***************************************************************************)
(* User management, behind authMiddleware and adminMiddleware.  A response *)
(* of these routes also records what the request was and did: how it was   *)
(* authenticated (via), the identity attached (user), whether the route    *)
(* handler ran, and how many User-table reads and writes it issued.        *)
(***************************************************************************)
Headers ==
    [authorization : {NULL, "Basic abc", "Bearer garbage", "Bearer " \o ApiKey}
                         \cup {"Bearer " \o t.token : t \in tokens},
     xApiKey : {NULL, "", "wrong", ApiKey}]

\* The requests the model sends to the admin routes: every header pair under
\* a fully configured server, and the credentials each degraded setting
\* affects (API_AUTH_KEY unset, JWT_SECRET unset, a token past its expiry).
\* NODE_ENV only changes the message of a 500 that errorHandler renders,
\* which these routes never produce, so it stays "development" here.
TokenHeaders ==
    {[authorization |-> "Bearer " \o t.token, xApiKey |-> k] : t \in tokens, k \in {NULL, ApiKey}}
Clients ==
    LET Env(apiKey, jwtSecret) ==
            [API_AUTH_KEY |-> apiKey, JWT_SECRET |-> jwtSecret, production |-> FALSE]
        Client(headers, env, expired) ==
            [headers |-> headers, env |-> env, expired |-> expired]
    IN {Client(h, Env(ApiKey, JwtSecret), FALSE) : h \in Headers}
         \cup {Client(h, Env(NULL, JwtSecret), FALSE) :
                  h \in TokenHeaders \cup {[authorization |-> NULL, xApiKey |-> ApiKey]}}
         \cup {Client(h, Env(ApiKey, NULL), FALSE) : h \in TokenHeaders}
         \cup {Client(h, Env(ApiKey, JwtSecret), TRUE) : h \in TokenHeaders}

\* what a handler returns: the response, the table afterwards, its accesses
Handled(status, body, us, reads, writes) ==
    [status |-> status, body |-> body, users |-> us, reads |-> reads, writes |-> writes]
Thrown(err, production, us, reads) ==
    LET r == errorHandler(err, production)
    IN Handled(r.status, r.body, us, reads, 0)

\* updateUserSchema
UpdateUserBodyValid(name, role) ==
    /\ name = NULL \/ (Len(name) > 0 /\ Len(name) <= MaxName)
    /\ role \in {NULL, "USER", "ADMIN"}

\* GET /users/:userId
GetUserHandler(us, user, userId, production) ==
    IF userId \notin DOMAIN us
    THEN Thrown(NotFoundError("User with ID " \o userId \o " not found"), production, us, 1)
    ELSE Handled(200, [success |-> TRUE, data |-> userId], us, 1, 0)

\* PUT /users/:userId
UpdateBodies ==
    {[name |-> "Bob", role |-> NULL], [name |-> NULL, role |-> "USER"],
     [name |-> NULL, role |-> "ADMIN"], [name |-> "", role |-> "SUPERADMIN"]}
DemotesSelf(user, userId, role) ==
    user.id = userId /\ Truthy(role) /\ role # "ADMIN"

\* PUT /users/:userId, the mutation: the row is looked up before the body
\* is validated
UpdateUserLookupFirst(us, user, userId, name, role, production) ==
    IF userId \notin DOMAIN us
    THEN Thrown(NotFoundError("User with ID " \o userId \o " not found"), production, us, 1)
    ELSE IF ~UpdateUserBodyValid(name, role)
    THEN Thrown(ValidationError("invalid body"), production, us, 1)
    ELSE IF DemotesSelf(user, userId, role)
    THEN Thrown(ValidationError("Cannot remove your own admin role"), production, us, 1)
    ELSE Handled(200, [success |-> TRUE, data |-> userId],
                 [us EXCEPT ![userId].name = IF name # NULL THEN name ELSE @,
                            ![userId].role = IF role # NULL THEN role ELSE @],
                 1, 1)

UpdateUserHandler(us, user, userId, name, role, production) ==
    IF ~UpdateUserBodyValid(name, role)
    THEN Thrown(ValidationError("invalid body"), production, us, 0)
    ELSE IF DemotesSelf(user, userId, role)
    THEN Thrown(ValidationError("Cannot remove your own admin role"), production, us, 0)
    ELSE IF userId \notin DOMAIN us
    THEN Thrown(NotFoundError("User with ID " \o userId \o " not found"), production, us, 1)
    ELSE Handled(200, [success |-> TRUE, data |-> userId],
                 [us EXCEPT ![userId].name = IF name # NULL THEN name ELSE @,
                            ![userId].role = IF role # NULL THEN role ELSE @],
                 1, 1)

\* DELETE /users/:userId
NoSelfCheckDelete(user, userId) == FALSE
DeletesSelf(user, userId) == user.id = userId

DeleteUserHandler(us, user, userId, production) ==
    IF DeletesSelf(user, userId)
    THEN Thrown(ValidationError("Cannot delete your own account"), production, us, 0)
    ELSE IF userId \notin DOMAIN us
    THEN Thrown(NotFoundError("User with ID " \o userId \o " not found"), production, us, 1)
    ELSE Handled(200, [success |-> TRUE, message |-> "User deleted successfully"],
                 Drop(us, userId), 1, 1)

\* app.use("/api/dashboard", authMiddleware, dashboardRoutes): the
\* middleware answers the request itself (500), hands an error to
\* errorHandler (401), or calls next() and the request goes on to its route
Authenticate ==
    /\ req = NoReq
    /\ \E c \in Clients :
        LET a == authMiddleware(c.headers, c.env, c.expired)
            rejected == [route |-> "/api/dashboard", via |-> a.outcome, user |-> a.user,
                         handler |-> FALSE, reads |-> 0, writes |-> 0]
        IN IF a.outcome = "config"
           THEN /\ resp' = rejected @@
                           [status |-> 500,
                            body |-> [error |-> TRUE,
                                      message |-> "Server configuration error"]]
                /\ req' = NoReq
           ELSE IF a.outcome = "rejected"
           THEN /\ resp' = rejected @@ errorHandler(a.err, c.env.production)
                /\ req' = NoReq
           ELSE /\ req' = [stage |-> "authed", via |-> a.outcome, user |-> a.user,
                           production |-> c.env.production]
                /\ resp' = NoResp
    /\ UNCHANGED <<agents, calls, users, now, sync, prev, runs, extCalls, tokens, boots, creating, stats>>

\* router.<verb>(path, adminMiddleware, asyncHandler(handler)) for a request
\* that passed authMiddleware, given what the handler would return
AdminRoute(route, params, handled) ==
    LET gate == adminMiddleware(req.user)
        info == [route |-> route, via |-> req.via, user |-> req.user,
                 params |-> params]
    IN /\ req.stage = "authed"
       /\ req' = NoReq
       /\ IF gate # NoError
          THEN /\ resp' = info @@ errorHandler(gate, req.production) @@
                          [handler |-> FALSE, reads |-> 0, writes |-> 0]
               /\ users' = users
          ELSE LET h == handled
               IN /\ resp' = info @@ [status |-> h.status, body |-> h.body,
                                      handler |-> TRUE,
                                      reads |-> h.reads, writes |-> h.writes]
                  /\ users' = h.users

GetUser ==
    /\ req.stage = "authed"
    /\ \E userId \in UserIds :
        LET handled == GetUserHandler(users, req.user, userId, req.production)
        IN AdminRoute("GET /users/:userId", [userId |-> userId, role |-> NULL], handled)
    /\ UNCHANGED <<agents, calls, now, sync, prev, runs, extCalls, tokens, boots, creating, stats>>

UpdateUser ==
    /\ req.stage = "authed"
    /\ \E userId \in UserIds, body \in UpdateBodies :
        LET handled == UpdateUserHandler(users, req.user, userId, body.name,
                                               body.role, req.production)
        IN AdminRoute("PUT /users/:userId",
                      [userId |-> userId, role |-> body.role, name |-> body.name],
                      handled)
    /\ UNCHANGED <<agents, calls, now, sync, prev, runs, extCalls, tokens, boots, creating, stats>>

DeleteUser ==
    /\ req.stage = "authed"
    /\ \E userId \in UserIds :
        LET handled == DeleteUserHandler(users, req.user, userId, req.production)
        IN AdminRoute("DELETE /users/:userId", [userId |-> userId, role |-> NULL], handled)
    /\ UNCHANGED <<agents, calls, now, sync, prev, runs, extCalls, tokens, boots, creating, stats>>

\* GET /users
PageParams == [limit : {NoNum, 0, 1, 2, 101}, offset : {NoNum, 1, 2, 0 - 2}]

\* userListSchema
UsersQueryValid(q) ==
    /\ PageQueryValid(q)
    /\ q.role \in {NULL, "USER", "ADMIN"}
    /\ q.search = NULL \/ (Len(q.search) > 0 /\ Len(q.search) <= 200)

ListUsersHandler(us, q, order, production) ==
    IF ~UsersQueryValid(q)
    THEN Thrown(ValidationError("invalid query"), production, us, 0)
    ELSE Handled(200,
                 ListBody(Page(order, OffsetOf(q), LimitOf(q)),
                          Cardinality(UsersWhere(us, q)), q),
                 us, 2, 0)

ListUsers ==
    /\ req.stage = "authed"
    /\ \E page \in [limit : {NoNum, 0, 1, 2}, offset : {NoNum, 1}],
          f \in {[role |-> NULL, search |-> NULL], [role |-> "ADMIN", search |-> NULL],
                 [role |-> "SUPERADMIN", search |-> NULL],
                 [role |-> NULL, search |-> "X.IO"]} :
        \E order \in DescOrders(UsersWhere(users, f), Unordered(users)) :
            LET handled == ListUsersHandler(users, page @@ f, order, req.production)
            IN AdminRoute("GET /users", page @@ f, handled)
    /\ UNCHANGED <<agents, calls, now, sync, prev, runs, extCalls, tokens, boots, creating, stats>>

\* a dashboard route without the admin gate, for a request that passed
\* authMiddleware
DashboardDeleteAgent ==
    /\ req.stage = "authed"
    /\ DeleteAgent

\* the store as deployed: one administrator account exists
InitUsers ==
    /\ agents = Put(EmptyFn, "a1", [agent_name |-> "Alpha", status |-> "ACTIVE"])
    /\ calls = EmptyFn
    /\ users = Put(EmptyFn, "u1", UserRow("ann@x.io", Hash("password1"), "Ann",
                                          "ADMIN", "APPROVED"))
    /\ now = 0
    /\ sync = [p \in Procs |-> IdleSync]
    /\ prev = NoRun
    /\ runs = 0
    /\ extCalls = <<>>
    /\ tokens = {}
    /\ req = NoReq
    /\ boots = 0
    /\ creating = [p \in Procs |-> NoCreate]
    /\ stats = NoStats
    /\ resp = NoResp

\* the user-management routes over a store with an administrator, the
\* superadmin and an ordinary account, each holding a token from a login
ThreeUsers ==
    Put(Put(Put(EmptyFn,
        "u1", UserRow("ann@x.io", Hash("password1"), "Ann", "ADMIN", "APPROVED")),
        "u2", UserRow(SuperEmail, Hash(SuperPassword), DefaultSuperName,
                      "SUPERADMIN", "APPROVED")),
        "u3", UserRow("bob@x.io", Hash("password1"), NULL, DefaultRole, DefaultStatus))

\* the same store after bob was made an administrator and logged in again
TwoAdmins == [ThreeUsers EXCEPT !["u3"].role = "ADMIN"]

InitAdmin ==
    /\ agents = EmptyFn
    /\ calls = EmptyFn
    /\ users = ThreeUsers
    /\ now = 0
    /\ sync = [p \in Procs |-> IdleSync]
    /\ prev = NoRun
    /\ runs = 0
    /\ extCalls = <<>>
    /\ tokens = {TokenOf(u, users[u].role) : u \in DOMAIN users}
    /\ req = NoReq
    /\ boots = 0
    /\ creating = [p \in Procs |-> NoCreate]
    /\ stats = NoStats
    /\ resp = NoResp

NextAdmin ==
    \/ Authenticate
    \/ ListUsers
    \/ GetUser
    \/ UpdateUser
    \/ DeleteUser

SpecAdmin == InitAdmin /\ [][NextAdmin]_vars

\* the same routes over the store with two administrators, each holding a
\* token from a login
InitTwoAdmins ==
    /\ agents = EmptyFn
    /\ calls = EmptyFn
    /\ users = TwoAdmins
    /\ now = 0
    /\ sync = [p \in Procs |-> IdleSync]
    /\ prev = NoRun
    /\ runs = 0
    /\ extCalls = <<>>
    /\ tokens = {TokenOf(u, users[u].role) : u \in DOMAIN users}
    /\ req = NoReq
    /\ boots = 0
    /\ creating = [p \in Procs |-> NoCreate]
    /\ stats = NoStats
    /\ resp = NoResp

SpecTwoAdmins == InitTwoAdmins /\ [][NextAdmin]_vars


(***************************************************************************)
(* The list routes of the dashboard, for a request that passed             *)
(* authMiddleware.  A response records the request's parameters.           *)
(***************************************************************************)
DashboardRespond(route, params, res) ==
    /\ req.stage = "authed"
    /\ req' = NoReq
    /\ resp' = [route |-> route, via |-> req.via, user |-> req.user, params |-> params,
                handler |-> TRUE] @@ res

Ok(body) == [status |-> 200, body |-> body]

\* the store queries a handler awaited before it answered
Accesses(reads, writes) == [reads |-> reads, writes |-> writes]

CallHistoryQueries ==
    {page @@ [sortBy |-> sb] : page \in PageParams,
                                sb \in {NULL, "duration", "cost", "name"}}

\* callHistorySchema
CallHistoryQueryValid(q) == PageQueryValid(q) /\ SortByValid(q.sortBy)

\* GET /call-history
CallHistoryHandler(cls, q, order, production) ==
    IF ~CallHistoryQueryValid(q)
    THEN errorHandler(ValidationError("invalid query"), production)
    ELSE Ok(ListBody(Page(order, OffsetOf(q), LimitOf(q)), Cardinality(DOMAIN cls), q))

GetCallHistory ==
    /\ req.stage = "authed"
    /\ \E q \in CallHistoryQueries :
        LET key == OrderKey(calls, SortByOf(q.sortBy))
        IN \E order \in DescOrders(DOMAIN calls, key) :
            DashboardRespond("GET /call-history", q,
                             CallHistoryHandler(calls, q, order, req.production))
    /\ UNCHANGED <<agents, calls, users, now, sync, prev, runs, extCalls, tokens, boots, creating, stats>>

\* GET /call-history/:agentId
\* GET /call-history/:agentId, the mutation: an agent without calls is
\* reported as not found
AgentCallHistoryOr404(ags, cls, agentId, q, order, production) ==
    IF ~CallHistoryQueryValid(q)
    THEN errorHandler(ValidationError("invalid query"), production) @@ Accesses(0, 0)
    ELSE IF agentId \notin DOMAIN ags \/ AgentCallsWhere(cls, agentId) = {}
    THEN errorHandler(NotFoundError("Agent with ID " \o agentId \o " not found"),
                      production) @@ Accesses(1, 0)
    ELSE Ok(ListBody(Page(order, OffsetOf(q), LimitOf(q)),
                     Cardinality(AgentCallsWhere(cls, agentId)), q)) @@ Accesses(3, 0)

AgentCallHistoryHandler(ags, cls, agentId, q, order, production) ==
    IF ~CallHistoryQueryValid(q)
    THEN errorHandler(ValidationError("invalid query"), production) @@ Accesses(0, 0)
    ELSE IF agentId \notin DOMAIN ags
    THEN errorHandler(NotFoundError("Agent with ID " \o agentId \o " not found"),
                      production) @@ Accesses(1, 0)
    ELSE Ok(ListBody(Page(order, OffsetOf(q), LimitOf(q)),
                     Cardinality(AgentCallsWhere(cls, agentId)), q)) @@ Accesses(3, 0)

AgentCallHistoryRequest(queries, agentIds) ==
    /\ req.stage = "authed"
    /\ \E q \in queries, agentId \in agentIds :
        LET key == OrderKey(calls, SortByOf(q.sortBy))
        IN \E order \in DescOrders(AgentCallsWhere(calls, agentId), key) :
            DashboardRespond("GET /call-history/:agentId", q @@ [agentId |-> agentId],
                             AgentCallHistoryHandler(agents, calls, agentId, q, order,
                                                     req.production))
    /\ UNCHANGED <<agents, calls, users, now, sync, prev, runs, extCalls, tokens, boots, creating, stats>>

GetAgentCallHistory == AgentCallHistoryRequest(CallHistoryQueries, AgentIds \cup {"a9"})

\* GET /calls
\* callsListSchema
CallsQueryValid(q) ==
    /\ PageQueryValid(q) /\ SortByValid(q.sortBy)
    /\ q.agentId = NULL \/ Len(q.agentId) > 0
    /\ q.callStatus = NULL \/ Len(q.callStatus) > 0

CallsHandler(cls, q, order, production) ==
    IF ~CallsQueryValid(q)
    THEN errorHandler(ValidationError("invalid query"), production)
    ELSE Ok(ListBody(Page(order, OffsetOf(q), LimitOf(q)),
                     Cardinality(CallsWhere(cls, q)), q))

GetCalls ==
    /\ req.stage = "authed"
    /\ \E page \in PageParams,
          f \in LET none == [agentId |-> NULL, callStatus |-> NULL, startDate |-> NoNum,
                             endDate |-> NoNum, sortBy |-> NULL]
                IN {none, [none EXCEPT !.agentId = "a1"],
                    [none EXCEPT !.callStatus = "ended"],
                    [none EXCEPT !.startDate = 2000, !.endDate = 2000],
                    [none EXCEPT !.sortBy = "cost"], [none EXCEPT !.agentId = ""]} :
        LET q == page @@ f
            key == OrderKey(calls, SortByOf(q.sortBy))
        IN \E order \in DescOrders(CallsWhere(calls, q), key) :
            DashboardRespond("GET /calls", q, CallsHandler(calls, q, order, req.production))
    /\ UNCHANGED <<agents, calls, users, now, sync, prev, runs, extCalls, tokens, boots, creating, stats>>

\* a client paging through GET /calls over the unchanged store: offsets 0,
\* limit, 2 * limit, ... for as long as the response says hasMore; the store
\* answers each findMany from an order of its own choosing
RECURSIVE PagesFrom(_, _, _, _)
PagesFrom(cls, q, orders, k) ==
    LET qk == [q EXCEPT !.offset = (k - 1) * q.limit]
        res == CallsHandler(cls, qk, orders[k], FALSE)
    IN IF res.body.data.pagination.hasMore
       THEN <<res.body.data>> \o PagesFrom(cls, q, orders, k + 1)
       ELSE <<res.body.data>>

PageThroughCalls ==
    /\ req.stage = "authed"
    /\ \E limit \in {1, 2}, sortBy \in {NULL, "duration", "cost"} :
        LET q == [limit |-> limit, offset |-> 0, agentId |-> NULL, callStatus |-> NULL,
                  startDate |-> NoNum, endDate |-> NoNum, sortBy |-> sortBy]
            ids == CallsWhere(calls, q)
            key == OrderKey(calls, SortByOf(sortBy))
            n == IF ids = {} THEN 1 ELSE (Cardinality(ids) + limit - 1) \div limit
        IN \E orders \in [1..n -> DescOrders(ids, key)] :
            DashboardRespond("GET /calls, page by page", q,
                             [status |-> 200,
                              body |-> [success |-> TRUE,
                                        pages |-> PagesFrom(calls, q, orders, 1)]])
    /\ UNCHANGED <<agents, calls, users, now, sync, prev, runs, extCalls, tokens, boots, creating, stats>>

\* GET /agents
\* agentListSchema
AgentsQueryValid(q) ==
    /\ PageQueryValid(q)
    /\ q.status \in {NULL, "ACTIVE", "INACTIVE"}
    /\ q.search = NULL \/ (Len(q.search) > 0 /\ Len(q.search) <= 200)

AgentsHandler(ags, q, order, production) ==
    IF ~AgentsQueryValid(q)
    THEN errorHandler(ValidationError("invalid query"), production)
    ELSE Ok(ListBody(Page(order, OffsetOf(q), LimitOf(q)),
                     Cardinality(AgentsWhere(ags, q)), q))

GetAgents ==
    /\ req.stage = "authed"
    /\ \E page \in PageParams,
          f \in {[status |-> NULL, search |-> NULL], [status |-> "ACTIVE", search |-> NULL],
                 [status |-> "PAUSED", search |-> NULL],
                 [status |-> NULL, search |-> "ALPHA"],
                 [status |-> "INACTIVE", search |-> "a"]} :
        \E order \in DescOrders(AgentsWhere(agents, f), Unordered(agents)) :
            DashboardRespond("GET /agents", page @@ f,
                             AgentsHandler(agents, page @@ f, order, req.production))
    /\ UNCHANGED <<agents, calls, users, now, sync, prev, runs, extCalls, tokens, boots, creating, stats>>

\* GET /search/calls
\* searchCallsSchema
SearchCallsQueryValid(q) ==
    /\ PageQueryValid(q)
    /\ q.query # NULL /\ Len(q.query) >= 1 /\ Len(q.query) <= 500
    /\ q.agentId = NULL \/ Len(q.agentId) > 0

SearchCallsHandler(cls, q, order, production) ==
    IF ~SearchCallsQueryValid(q)
    THEN errorHandler(ValidationError("invalid query"), production)
    ELSE Ok(ListBody(Page(order, OffsetOf(q), LimitOf(q)),
                     Cardinality(SearchCallsWhere(cls, q)), q))

SearchCalls ==
    /\ req.stage = "authed"
    /\ \E page \in PageParams,
          f \in {[query |-> "hello", agentId |-> NULL], [query |-> "C", agentId |-> "a1"],
                 [query |-> "bill", agentId |-> NULL],
                 [query |-> NULL, agentId |-> NULL]} :
        LET q == page @@ f
            key == OrderKey(calls, "date")
            found == IF q.query = NULL THEN {} ELSE SearchCallsWhere(calls, q)
        IN \E order \in DescOrders(found, key) :
            DashboardRespond("GET /search/calls", q,
                             SearchCallsHandler(calls, q, order, req.production))
    /\ UNCHANGED <<agents, calls, users, now, sync, prev, runs, extCalls, tokens, boots, creating, stats>>

\* GET /search/agents
\* searchAgentsSchema
SearchAgentsQueryValid(q) ==
    /\ PageQueryValid(q)
    /\ q.query # NULL /\ Len(q.query) >= 1 /\ Len(q.query) <= 200

SearchAgentsHandler(ags, q, order, production) ==
    IF ~SearchAgentsQueryValid(q)
    THEN errorHandler(ValidationError("invalid query"), production)
    ELSE Ok(ListBody(Page(order, OffsetOf(q), LimitOf(q)),
                     Cardinality(SearchAgentsWhere(ags, q)), q))

SearchAgents ==
    /\ req.stage = "authed"
    /\ \E page \in PageParams, f \in {[query |-> "A"], [query |-> "beta"], [query |-> NULL]} :
        LET q == page @@ f
            found == IF q.query = NULL THEN {} ELSE SearchAgentsWhere(agents, q)
        IN \E order \in DescOrders(found, Unordered(agents)) :
            DashboardRespond("GET /search/agents", q,
                             SearchAgentsHandler(agents, q, order, req.production))
    /\ UNCHANGED <<agents, calls, users, now, sync, prev, runs, extCalls, tokens, boots, creating, stats>>

\* the stores the list routes are read from: up to three synced calls of two
\* agents, three accounts, and the administrator's token
ListCallRecords ==
    << ExtCall("c1", "a1", 1000, 3500, 2500, 3, "ended", "true", "Hello", "Anna",
               "Billing"),
       ExtCall("c2", "a2", 2000, 3000, 900, NoNum, "error", NULL, NULL, NULL, NULL),
       ExtCall("c4", "a1", 2000, 2600, 600, 3, "ended", NULL, "Bye", NULL, "Refund") >>

RECURSIVE StoredCalls(_)
StoredCalls(k) ==
    IF k = 0 THEN EmptyFn
    ELSE CallUpsert(StoredCalls(k - 1), CallDataOf(ListCallRecords[k]), 0)

InitList ==
    /\ agents = Put(Put(EmptyFn, "a1", [agent_name |-> "Alpha", status |-> "ACTIVE"]),
                    "a2", [agent_name |-> "Beta", status |-> "ACTIVE"])
    /\ \E k \in 0..Len(ListCallRecords) : calls = StoredCalls(k)
    /\ users = ThreeUsers
    /\ now = 0
    /\ sync = [p \in Procs |-> IdleSync]
    /\ prev = NoRun
    /\ runs = 0
    /\ extCalls = <<>>
    /\ tokens = {TokenOf("u1", "ADMIN")}
    /\ req = NoReq
    /\ boots = 0
    /\ creating = [p \in Procs |-> NoCreate]
    /\ stats = NoStats
    /\ resp = NoResp

NextList ==
    \/ Authenticate
    \/ GetCallHistory
    \/ GetAgentCallHistory
    \/ GetCalls
    \/ GetAgents
    \/ ListUsers
    \/ SearchCalls
    \/ SearchAgents
    \/ DashboardDeleteAgent
    \/ PageThroughCalls

SpecList == InitList /\ [][NextList]_vars

\* the account routes, with one list route that validates its query
NextUsers ==
    \/ Register
    \/ Login
    \/ EnsureSuperAdmin
    \/ GetUser
    \/ UpdateUser
    \/ DeleteUser
    \/ Authenticate
    \/ AgentCallHistoryRequest({[limit |-> NoNum, offset |-> NoNum, sortBy |-> NULL],
                                 [limit |-> 101, offset |-> 1, sortBy |-> "cost"],
                                 [limit |-> 2, offset |-> 0 - 2, sortBy |-> NULL],
                                 [limit |-> 1, offset |-> NoNum, sortBy |-> "name"]},
                                {"a1", "a9"})

SpecUsers == InitUsers /\ [][NextUsers]_vars


(***************************************************************************)
(* Pagination of the list routes.                                          *)
(***************************************************************************)
ListRoutes ==
    {"GET /call-history", "GET /call-history/:agentId", "GET /calls", "GET /agents",
     "GET /users", "GET /search/calls", "GET /search/agents"}

\* the stored rows that match the filter of the request just answered
MatchingRows ==
    CASE resp.route = "GET /call-history" -> DOMAIN calls
      [] resp.route = "GET /call-history/:agentId" ->
            {c \in DOMAIN calls : calls[c].agent_id = resp.params.agentId}
      [] resp.route = "GET /calls" -> CallsWhere(calls, resp.params)
      [] resp.route = "GET /agents" -> AgentsWhere(agents, resp.params)
      [] resp.route = "GET /users" -> UsersWhere(users, resp.params)
      [] resp.route = "GET /search/calls" -> SearchCallsWhere(calls, resp.params)
      [] resp.route = "GET /search/agents" -> SearchAgentsWhere(agents, resp.params)

\* C3: every successful response of a paginated list route carries at most
\* limit items (the default 20 when the request gives none), reports as total
\* the number of stored rows matching the request's filter, and has hasMore
\* true exactly when offset + limit < total.
C3_Pagination ==
    (resp.route \in ListRoutes /\ resp.status = 200) =>
        LET limit == IF resp.params.limit = NoNum THEN 20 ELSE resp.params.limit
            offset == IF resp.params.offset = NoNum THEN 0 ELSE resp.params.offset
            total == Cardinality(MatchingRows)
            data == resp.body.data
        IN /\ Len(data.items) <= limit
           /\ data.pagination.total = total
           /\ data.pagination.hasMore = (offset + limit < total)
           /\ SeqToSet(data.items) \subseteq MatchingRows

\* a page that is full and ends exactly at the last matching row
C3_Witness ==
    /\ resp.route = "GET /calls" /\ resp.status = 200
    /\ resp.params.limit = 2 /\ resp.params.offset = 1
    /\ Len(resp.body.data.items) = 2
    /\ resp.body.data.pagination.total = 3
    /\ ~resp.body.data.pagination.hasMore

\* C10: GET /call-history/:agentId for an agentId with no stored Agent is
\* answered 404 with the message "Agent with ID <id> not found".
C10_UnknownAgentMessage ==
    (/\ resp.route = "GET /call-history/:agentId"
     /\ CallHistoryQueryValid(resp.params)
     /\ resp.params.agentId \notin DOMAIN agents) =>
        /\ resp.status = 404
        /\ resp.body.message = "Agent with ID " \o resp.params.agentId \o " not found"

(***************************************************************************)
(* Authentication outcomes.                                                *)
(***************************************************************************)
AllRequests == [headers : Headers, env : Envs, expired : BOOLEAN]

\* jwt.verify accepts the bearer token of a request
TokenVerifies(r) ==
    LET bearer == BearerTokenOf(r.headers.authorization)
    IN /\ Truthy(bearer) /\ Truthy(r.env.JWT_SECRET) /\ ~r.expired
       /\ \E t \in tokens : t.token = bearer

\* C6 as stated: verified by token when a bearer token is present and verifies,
\* otherwise verified by key when the static key header is present and equals
\* the configured secret, otherwise rejected with 401.
C6_ThreeOutcomes ==
    \A r \in AllRequests :
        authMiddleware(r.headers, r.env, r.expired).outcome =
            IF TokenVerifies(r) THEN "token"
            ELSE IF Truthy(r.headers.xApiKey) /\ r.headers.xApiKey = r.env.API_AUTH_KEY
            THEN "key"
            ELSE "rejected"

C6_Outcomes ==
    \A r \in AllRequests :
        LET a == authMiddleware(r.headers, r.env, r.expired)
            bearer == BearerTokenOf(r.headers.authorization)
            keyGiven == IF Truthy(r.headers.xApiKey) THEN r.headers.xApiKey ELSE bearer
        IN IF ~Truthy(r.env.API_AUTH_KEY) THEN a.outcome = "config"
           ELSE IF TokenVerifies(r)
           THEN /\ a.outcome = "token"
                /\ \E t \in tokens : /\ t.token = bearer
                                     /\ a.user = [id |-> t.sub, role |-> t.role]
           ELSE IF Truthy(keyGiven) /\ keyGiven = r.env.API_AUTH_KEY
           THEN a.outcome = "key" /\ a.user = NoUser
           ELSE a.outcome = "rejected" /\ a.err.statusCode = 401

C6_NoHandlerUnlessPassed ==
    /\ (req = NoReq /\ req' = NoReq /\ resp'.route = "/api/dashboard") =>
          /\ resp'.status \in {401, 500}
          /\ resp'.status = 500 <=> resp'.via = "config"
          /\ ~resp'.handler
          /\ agents' = agents /\ calls' = calls /\ users' = users
    /\ (resp' # resp /\ resp'.route \notin {"/api/dashboard", "none"}) =>
          req.stage = "authed" /\ req.via \in {"token", "key"}

\* C6, amended: while API_AUTH_KEY is configured a request ends verified by
\* token (bearer token present, JWT_SECRET configured, jwt.verify succeeds),
\* otherwise verified by key (the x-api-key header, or with no such header the
\* bearer token itself, equals API_AUTH_KEY), otherwise rejected with 401;
\* while API_AUTH_KEY is not configured every request is answered 500.  No
\* dashboard handler runs, and no table changes, for a request answered 401
\* or 500 by the middleware.
C6_AuthOutcomes == []C6_Outcomes /\ [][C6_NoHandlerUnlessPassed]_vars

\* a request that passed by key while a signed token exists
C6_Witness ==
    /\ req.stage = "authed" /\ req.via = "key"
    /\ tokens # {}
    /\ resp.route = "none"

(***************************************************************************)
(* The admin gate and the self-modification checks.                        *)
(***************************************************************************)
UserRoutes ==
    {"GET /users", "GET /users/:userId", "PUT /users/:userId", "DELETE /users/:userId"}

\* a request reaches its route, a user-management one
UserRouteStep == req.stage = "authed" /\ req' = NoReq /\ resp'.route \in UserRoutes

GateRejects(status) ==
    /\ resp'.status = status
    /\ ~resp'.handler
    /\ resp'.reads = 0 /\ resp'.writes = 0
    /\ users' = users

\* C7: a user-management handler runs only for a request verified by a token
\* whose role is ADMIN; a key-verified request gets 401 and a token-verified
\* request with another role gets 403, with no User row read or written.
C7_AdminGate ==
    [][ UserRouteStep =>
          /\ req.via = "key" => GateRejects(401)
          /\ (req.via = "token" /\ req.user.role # "ADMIN") => GateRejects(403)
          /\ resp'.handler => (req.via = "token" /\ req.user.role = "ADMIN") ]_vars

C7_Witness ==
    /\ resp.route = "DELETE /users/:userId"
    /\ resp.via = "token" /\ resp.user.role = "SUPERADMIN"
    /\ resp.status = 403 /\ ~resp.handler
    /\ resp.params.userId \in DOMAIN users

\* the request just answered asked to demote or to delete its own caller
SelfChange(r, caller) ==
    \/ /\ r.route = "PUT /users/:userId"
       /\ caller.id = r.params.userId
       /\ Truthy(r.params.role) /\ r.params.role # "ADMIN"
    \/ /\ r.route = "DELETE /users/:userId"
       /\ caller.id = r.params.userId

\* C8 as stated: a caller's request to demote or delete its own account is
\* answered 400.
C8_SelfChangeIs400 ==
    (resp.route \in UserRoutes /\ SelfChange(resp, resp.user)) => resp.status = 400

\* C8, amended: a request to set one's own role to something other than ADMIN,
\* or to delete one's own account, changes no User row; it is answered 400
\* when the caller's token has role ADMIN and 403 by the admin gate otherwise.
C8_SelfChangeRejected ==
    [][ (UserRouteStep /\ SelfChange(resp', req.user)) =>
          /\ users' = users
          /\ resp'.writes = 0
          /\ resp'.status = IF req.user.role = "ADMIN" THEN 400 ELSE 403 ]_vars

C8_Witness ==
    /\ resp.route = "DELETE /users/:userId"
    /\ resp.user = [id |-> "u1", role |-> "ADMIN"]
    /\ resp.params.userId = "u1"
    /\ resp.status = 400
    /\ "u1" \in DOMAIN users /\ users["u1"].role = "ADMIN"

(***************************************************************************)
(* The superadmin bootstrap.                                               *)
(***************************************************************************)
RowsWithEmail(us, email) == {id \in DOMAIN us : us[id].email = email}

\* C5: after ensureSuperAdmin has run with SUPERADMIN_EMAIL and
\* SUPERADMIN_PASSWORD configured there is exactly one User row with that
\* email and its role is SUPERADMIN; when such a row existed it is that row
\* (promoted if need be) and no row was created; every other row is untouched;
\* and running it once more changes nothing.
C5_BootstrapIdempotent ==
    [][ boots' = boots + 1 =>
          LET before == RowsWithEmail(users, SuperEmail)
              after == RowsWithEmail(users', SuperEmail)
          IN /\ Cardinality(after) = 1
             /\ \A id \in after : users'[id].role = "SUPERADMIN"
             /\ before # {} => (DOMAIN users' = DOMAIN users /\ after = before)
             /\ \A id \in DOMAIN users \ before : users'[id] = users[id]
             /\ \A name \in {NULL, "Bob"} :
                   ensureSuperAdmin(users', SuperEmail, SuperPassword, name) = users' ]_vars

\* the second run has completed over an account that had registered itself
C5_Witness ==
    /\ boots = 2
    /\ \E id \in DOMAIN users : /\ users[id].email = SuperEmail
                                /\ users[id].passwordHash = Hash("password1")
                                /\ users[id].role = "SUPERADMIN"

(***************************************************************************)
(* Creation requests served concurrently.  POST /agents and POST /register *)
(* look the unique key up (findUnique), await, and then create the row: a  *)
(* process is between the two store operations when `creating` holds its  *)
(* request, and other requests' operations may fall in between.  The store *)
(* enforces the unique key at the create and throws P2002.                 *)
(***************************************************************************)

\* POST /api/dashboard/agents: validation and prisma.agent.findUnique
CreateAgentFind(p) ==
    /\ creating[p] = NoCreate
    /\ \E agent_id \in AgentIds \cup {NULL}, agent_name \in {"Gamma", NULL},
          status \in {NULL, "INACTIVE", "PAUSED"}, production \in BOOLEAN :
        IF ~CreateAgentBodyValid(agent_id, agent_name, status)
        THEN /\ resp' = [route |-> "POST /agents", key |-> agent_id, outcome |-> "invalid"] @@
                        errorHandler(ValidationError("invalid body"), production)
             /\ creating' = creating
        ELSE IF agent_id \in DOMAIN agents
        THEN /\ resp' = [route |-> "POST /agents", key |-> agent_id,
                         outcome |-> "duplicate"] @@
                        errorHandler(ValidationError("Agent with this ID already exists"),
                                     production)
             /\ creating' = creating
        ELSE /\ creating' = [creating EXCEPT ![p] =
                                [kind |-> "agent", agent_id |-> agent_id,
                                 agent_name |-> agent_name, status |-> status,
                                 production |-> production]]
             /\ resp' = resp
    /\ UNCHANGED <<agents, calls, users, now, sync, prev, runs, extCalls, tokens, req, boots, stats>>

\* POST /api/dashboard/agents: prisma.agent.create and the response
CreateAgentWrite(p) ==
    /\ creating[p].kind = "agent"
    /\ LET c == creating[p]
       IN IF c.agent_id \in DOMAIN agents
          THEN /\ resp' = [route |-> "POST /agents", key |-> c.agent_id,
                           outcome |-> "duplicate"] @@
                          errorHandler(StoreError("P2002"), c.production)
               /\ agents' = agents
          ELSE /\ agents' = AgentCreate(agents, c.agent_id, c.agent_name, c.status)
               /\ resp' = [route |-> "POST /agents", key |-> c.agent_id,
                           outcome |-> "created", status |-> 201,
                           body |-> [success |-> TRUE, data |-> c.agent_id]]
    /\ creating' = [creating EXCEPT ![p] = NoCreate]
    /\ UNCHANGED <<calls, users, now, sync, prev, runs, extCalls, tokens, req, boots, stats>>

\* POST /api/auth/register: validation and prisma.user.findUnique
RegisterFind(p) ==
    /\ creating[p] = NoCreate
    /\ \E body \in RegisterBodies, env \in {e \in Envs : e.API_AUTH_KEY = ApiKey} :
        LET verr == RegisterError(body.email, body.password, body.name)
        IN IF verr # NULL
           THEN /\ resp' = [route |-> "POST /register", key |-> body.email,
                            outcome |-> "invalid"] @@
                           errorHandler(ValidationError(verr), env.production)
                /\ creating' = creating
           ELSE IF FindUserByEmail(users, body.email) # {}
           THEN /\ resp' = [route |-> "POST /register", key |-> body.email,
                            outcome |-> "duplicate"] @@
                           errorHandler(ValidationError("Email already in use"),
                                        env.production)
                /\ creating' = creating
           ELSE /\ creating' = [creating EXCEPT ![p] =
                                   [kind |-> "user", email |-> body.email,
                                    password |-> body.password, name |-> body.name,
                                    env |-> env]]
                /\ resp' = resp
    /\ UNCHANGED <<agents, calls, users, now, sync, prev, runs, extCalls, tokens, req, boots, stats>>

\* POST /api/auth/register: bcrypt.hash, prisma.user.create, signToken and the
\* response
RegisterWrite(p) ==
    /\ creating[p].kind = "user"
    /\ LET c == creating[p]
           userName == IF Truthy(c.name) /\ Truthy(Trim(c.name)) THEN Trim(c.name) ELSE NULL
           id == NewUserId(users)
           signed == signToken([sub |-> id, role |-> DefaultRole], c.env)
       IN IF FindUserByEmail(users, c.email) # {}
          THEN /\ resp' = [route |-> "POST /register", key |-> c.email,
                           outcome |-> "duplicate"] @@
                          errorHandler(StoreError("P2002"), c.env.production)
               /\ UNCHANGED <<users, tokens>>
          ELSE /\ UserIds \ DOMAIN users # {}
               /\ users' = Put(users, id, UserRow(c.email, Hash(c.password), userName,
                                                  DefaultRole, DefaultStatus))
               /\ IF signed.ok
                  THEN /\ Cardinality(tokens \cup {TokenOf(id, DefaultRole)}) <= MaxTokens
                       /\ tokens' = tokens \cup {TokenOf(id, DefaultRole)}
                       /\ resp' = [route |-> "POST /register", key |-> c.email,
                                   outcome |-> "created", status |-> 201,
                                   body |-> [success |-> TRUE, data |-> id,
                                             token |-> signed.token]]
                  ELSE /\ tokens' = tokens
                       /\ resp' = [route |-> "POST /register", key |-> c.email,
                                   outcome |-> "created"] @@
                                  errorHandler(PlainError("JWT_SECRET is not configured"),
                                               c.env.production)
    /\ creating' = [creating EXCEPT ![p] = NoCreate]
    /\ UNCHANGED <<agents, calls, now, sync, prev, runs, extCalls, req, boots, stats>>

InitCreate ==
    /\ agents = EmptyFn
    /\ calls = EmptyFn
    /\ users = Put(EmptyFn, "u1", UserRow("ann@x.io", Hash("password1"), "Ann",
                                          "ADMIN", "APPROVED"))
    /\ now = 0
    /\ sync = [p \in Procs |-> IdleSync]
    /\ prev = NoRun
    /\ runs = 0
    /\ extCalls = <<>>
    /\ tokens = {}
    /\ req = NoReq
    /\ boots = 0
    /\ creating = [p \in Procs |-> NoCreate]
    /\ stats = NoStats
    /\ resp = NoResp

NextCreate ==
    \/ \E p \in Procs : CreateAgentFind(p)
    \/ \E p \in Procs : CreateAgentWrite(p)
    \/ \E p \in Procs : RegisterFind(p)
    \/ \E p \in Procs : RegisterWrite(p)

SpecCreate == InitCreate /\ [][NextCreate]_vars

(***************************************************************************)
(* The errors that reach errorHandler (through next(err) and asyncHandler) *)
(* and their rendering.                                                    *)
(***************************************************************************)

\* the errors the middleware chain and the handlers raise: the AppError
\* classes with the messages of their throw sites, plain Errors, errors of
\* the store client and of the body parser
RaisedErrors ==
    {ValidationError(m) : m \in {"invalid body", "Email already in use",
                                  "Agent with this ID already exists",
                                  "Cannot delete your own account"}}
    \cup {UnauthorizedError(m) : m \in {"API key required", "Invalid credentials",
                                         "Authentication required"}}
    \cup {ForbiddenError("Admin access required")}
    \cup {NotFoundError(m) : m \in {"Agent with ID a9 not found", "User not found"}}
    \cup {AppError("Error", "Something failed", 500)}
    \cup {PlainError(m) : m \in {"JWT_SECRET is not configured", "Failed to fetch calls", ""}}
    \cup {StoreError(code) : code \in {"P2002", "P2025", "P2003", "P1001"}}
    \cup {HttpError("SyntaxError", "Unexpected token } in JSON at position 1", 400),
          HttpError("PayloadTooLargeError", "request entity too large", 413)}

\* a request ends in next(err): errorHandler(err, req, res, next) answers it
Raise ==
    /\ \E method \in {"GET", "POST", "PUT", "DELETE"}, err \in RaisedErrors,
          production \in BOOLEAN :
        resp' = [route |-> "error", method |-> method, err |-> err,
                 production |-> production] @@ errorHandler(err, production)
    /\ UNCHANGED <<agents, calls, users, now, sync, prev, runs, extCalls, tokens, req, boots,
                   creating, stats>>

SpecErrors == InitCreate /\ [][Raise]_vars

(***************************************************************************)
(* Properties of the sync routine: the empty window, the drain, failures   *)
(* and the agent filter.                                                   *)
(***************************************************************************)

\* the last response is that of a POST /sync-calls run whose drain succeeded
\* and returned no record
EmptyWindowResponse ==
    /\ resp.route = "sync-calls"
    /\ resp.status = 200
    /\ prev.ran
    /\ prev.fetched = 0

\* C11 (as claimed): when the external source returns zero records the
\* response of POST /sync-calls carries success:true and the three counters
\* callsSynced, callsUpdated and errors, all zero.
C11_EmptyWindowCounters ==
    EmptyWindowResponse =>
        /\ resp.body.success
        /\ {"callsSynced", "callsUpdated", "errors"} \subseteq DOMAIN resp.body
        /\ resp.body.callsSynced = 0
        /\ resp.body.callsUpdated = 0
        /\ resp.body.errors = 0

(***************************************************************************)
(* Properties of GET /call-history/:agentId.                               *)
(***************************************************************************)

\* the last response answers GET /call-history/:agentId with a valid query
\* for a stored agent that has no stored call
AgentWithoutCallsAsked ==
    /\ resp.route = "GET /call-history/:agentId"
    /\ resp.handler
    /\ CallHistoryQueryValid(resp.params)
    /\ resp.params.agentId \in DOMAIN agents
    /\ \A c \in DOMAIN calls : calls[c].agent_id # resp.params.agentId

\* C12: GET /call-history/:agentId for a stored agent without calls is
\* answered 200 with success, calls = [], pagination.total = 0 and
\* pagination.hasMore = false, whatever the valid limit, offset and sortBy.
C12_AgentWithoutCalls ==
    AgentWithoutCallsAsked =>
        /\ resp.status = 200
        /\ resp.body.success
        /\ resp.body.data.items = <<>>
        /\ resp.body.data.pagination.total = 0
        /\ ~resp.body.data.pagination.hasMore

\* the agent a2 has no call while a1 has one, and a2's history was asked
\* with limit 1 and sortBy cost
C12_Witness ==
    /\ AgentWithoutCallsAsked
    /\ resp.params.agentId = "a2"
    /\ resp.params.limit = 1
    /\ resp.params.sortBy = "cost"
    /\ calls # EmptyFn
    /\ resp.status = 200

(***************************************************************************)
(* Properties of the drain and of the sync routine under failures, the     *)
(* agent filter and concurrent runs.                                       *)
(***************************************************************************)

\* the process whose run takes the step, if a run takes it
Acting(p) == sync'[p] # sync[p]

\* the records of the pages of a sequence of page requests, in request order
RECURSIVE PagesOf(_)
PagesOf(requests) ==
    IF requests = <<>> THEN <<>>
    ELSE PagesOf(SubSeq(requests, 1, Len(requests) - 1)) \o requests[Len(requests)].page

\* C13: the drain of a run makes its page requests in sequence: the first
\* without cursor, each later one with the call_id of the last record of the
\* page before it; every page but the last is full, the last one is shorter
\* than the limit, and the records returned are the pages concatenated in
\* request order.
C13_DrainThreadsCursor ==
    \A p \in Procs :
        sync[p].pc # "idle" =>
            LET requests == sync[p].requests
                n == Len(requests)
            IN /\ n >= 1
               /\ requests[1].startAfter = NULL
               /\ \A k \in 2 .. n :
                     /\ requests[k - 1].page # <<>>
                     /\ requests[k].startAfter =
                            requests[k - 1].page[Len(requests[k - 1].page)].call_id
               /\ \A k \in 1 .. n - 1 : Len(requests[k].page) = PageLimit
               /\ Len(requests[n].page) < PageLimit
               /\ sync[p].fetched = PagesOf(requests)

\* a drain of two requests whose second page is short and not empty
C13_Witness ==
    \E p \in Procs :
        /\ sync[p].pc # "idle"
        /\ Len(sync[p].requests) = 2
        /\ sync[p].requests[2].startAfter # NULL
        /\ sync[p].requests[2].page # <<>>

\* the step answers a POST /sync-calls whose drain made a page request that
\* failed
DrainFailedStep ==
    /\ resp' # resp
    /\ resp'.route = "sync-calls"
    /\ \E k \in 1 .. Len(resp'.requests) : resp'.requests[k].failed

\* no run in progress works on the records of a drain one of whose page
\* requests failed
NoPartialDrain ==
    \A p \in Procs : \A k \in 1 .. Len(sync[p].requests) : ~sync[p].requests[k].failed

\* C14: a POST /sync-calls whose drain had a page request fail is answered
\* with the error (500, error:true), writes no Agent row and no Call row and
\* starts no run on the pages fetched before the failure; no run ever works
\* on the records of such a drain.
C14_FailedDrainAborts ==
    /\ []NoPartialDrain
    /\ [][ DrainFailedStep =>
             /\ resp'.status = 500
             /\ resp'.body.error
             /\ agents' = agents
             /\ calls' = calls
             /\ sync' = sync ]_vars

\* the second page request failed after a full first page had been fetched
C14_Witness ==
    /\ resp.route = "sync-calls"
    /\ resp.status = 500
    /\ Len(resp.requests) = 2
    /\ Len(resp.requests[1].page) = PageLimit
    /\ resp.requests[2].failed

\* C15: a run whose roster fetch failed goes on: it has drained the records,
\* each Agent row it writes gets the name "Agent <agent_id>" and no other row
\* changes in that step, its call loop writes Call rows, and it ends with a
\* 200 success response.
C15_RosterFailureDegrades ==
    [][ \A p \in Procs :
          (Acting(p) /\ sync[p].pc # "idle" /\ ~sync[p].rosterOk) =>
             /\ sync[p].fetched # <<>>
             /\ agents' # agents =>
                   LET a == sync[p].uniqueAgentIds[sync[p].i]
                   IN /\ a \in DOMAIN agents'
                      /\ agents'[a].agent_name = "Agent " \o a
                      /\ \A b \in DOMAIN agents' \ {a} :
                            b \in DOMAIN agents /\ agents'[b] = agents[b]
             /\ sync'[p].pc = "idle" =>
                   /\ resp'.route = "sync-calls"
                   /\ resp'.status = 200
                   /\ resp'.body.success ]_vars

\* a single run whose roster fetch failed has answered, having stored a call
\* of each of two agents, both named by the placeholder
C15_Witness ==
    /\ runs = 1
    /\ prev.ran /\ ~prev.rosterOk
    /\ resp.route = "sync-calls" /\ resp.status = 200
    /\ resp.body.callsSynced = 2
    /\ DOMAIN agents = {"a1", "a2"}
    /\ \A a \in DOMAIN agents : agents[a].agent_name = "Agent " \o a

\* the last response is the summary of a run that went through its loops
RunCompleted ==
    /\ resp.route = "sync-calls"
    /\ resp.status = 200
    /\ resp.body.message = "Call sync completed"

\* C16: a failure on one record does not end the call loop: in every run the
\* three counters add up to the number of records the loop has passed, the
\* run responds only after the last filtered record, and the summary (a 200
\* success) has callsSynced + callsUpdated + errors equal to the number of
\* records left by the agent filter.
C16_RecordFailuresCounted ==
    /\ \A p \in Procs :
          LET s == sync[p]
          IN /\ s.syncedCount + s.updatedCount + s.errorCount = s.j - 1
             /\ s.pc = "respond" => s.j = Len(s.filteredCalls) + 1
    /\ RunCompleted =>
          /\ resp.body.success
          /\ resp.body.callsSynced + resp.body.callsUpdated + resp.body.errors
                = prev.filtered

\* a single unfiltered run over three records failed on the first and on the
\* last and stored the second
C16_Witness ==
    /\ runs = 1
    /\ RunCompleted
    /\ prev.filtered = 3
    /\ resp.body.errors = 2
    /\ resp.body.callsSynced = 1
    /\ DOMAIN calls = {"c2"}

\* C17: a step of a run that carries an agentId filter creates or changes no
\* Call row and no Agent row of another agent.
C17_FilterConfinesWrites ==
    [][ \A p \in Procs :
          (Acting(p) /\ sync[p].pc # "idle" /\ sync[p].agentId # NULL) =>
             /\ \A c \in DOMAIN calls' :
                   (c \notin DOMAIN calls \/ calls'[c] # calls[c]) =>
                       calls'[c].agent_id = sync[p].agentId
             /\ \A a \in DOMAIN agents' :
                   (a \notin DOMAIN agents \/ agents'[a] # agents[a]) =>
                       a = sync[p].agentId ]_vars

\* a single run filtered to a1 over records of a1 and a2 has stored a1's call
\* and nothing of a2
C17_Witness ==
    /\ runs = 1
    /\ sync[1].pc = "respond"
    /\ sync[1].agentId = "a1"
    /\ Len(sync[1].filteredCalls) < Len(sync[1].fetched)
    /\ DOMAIN calls = {"c1"}
    /\ DOMAIN agents = {"a1"}

\* the Agent rows one run with the inputs of s stores in an empty table
SingleRunAgents(s) ==
    [a \in SeqToSet(s.uniqueAgentIds) |->
        [agent_name |-> AgentNameFor(s.agentMap, a), status |-> "ACTIVE"]]

\* the records of s's filtered list that the call loop can store
Storable(s) ==
    {k \in 1 .. Len(s.filteredCalls) : ~CallDataThrows(s.filteredCalls[k])}

\* the Call rows one run with the inputs of s stores in an empty table, the
\* write times apart
SingleRunCalls(s) ==
    [c \in {s.filteredCalls[k].call_id : k \in Storable(s)} |->
        LET call == CHOOSE x \in SeqToSet(s.filteredCalls) : x.call_id = c
        IN CallUpsert(EmptyFn, CallDataOf(call), 0)[c]]

\* both runs are through their loops, had the same inputs (filter, roster,
\* records) and no store failure
BothRunsThrough ==
    /\ \A p \in Procs :
          /\ sync[p].pc = "respond"
          /\ sync[p].errorCount = Len(sync[p].filteredCalls) - Cardinality(Storable(sync[p]))
    /\ sync[1].agentId = sync[2].agentId
    /\ sync[1].agentMap = sync[2].agentMap
    /\ sync[1].fetched = sync[2].fetched

\* C18: when two runs over the same external data have both gone through
\* their loops, however their upserts interleaved, the store holds one Agent
\* row per referenced agent_id and one Call row per storable call_id, with the
\* field values one run alone stores (created_at / updated_at apart).
C18_ConcurrentRunsAgree ==
    BothRunsThrough =>
        /\ agents = SingleRunAgents(sync[1])
        /\ DOMAIN calls = DOMAIN SingleRunCalls(sync[1])
        /\ \A c \in DOMAIN calls :
              [calls[c] EXCEPT !.created_at = 0, !.updated_at = 0]
                = SingleRunCalls(sync[1])[c]

\* both runs are through, and a row one run created was written again by the
\* other at a later time
C18_Witness ==
    /\ BothRunsThrough
    /\ DOMAIN agents = {"a1", "a2"}
    /\ agents["a2"].agent_name = "Beta"
    /\ \E c \in DOMAIN calls : calls[c].created_at # calls[c].updated_at

(***************************************************************************)
(* Properties of concurrent creation requests.                             *)
(***************************************************************************)

\* C19 (as claimed): however creation requests with the same unique key
\* interleave, no two User rows share an email (Agent rows are keyed by
\* agent_id), and every valid request that did not create the row is answered
\* 409.
C19_LosersGet409 ==
    /\ \A id1, id2 \in DOMAIN users : users[id1].email = users[id2].email => id1 = id2
    /\ (resp.route \in {"POST /agents", "POST /register"} /\ resp.outcome = "duplicate") =>
          resp.status = 409

(***************************************************************************)
(* Properties of the error handler.                                        *)
(***************************************************************************)

\* the body is the error envelope: error:true and a message
ErrorEnvelope ==
    /\ resp.body.error
    /\ resp.body.message # ""

\* C20 (as claimed): every error is rendered with the status of its class,
\* ValidationError 400, UnauthorizedError 401, ForbiddenError 403,
\* NotFoundError 404, a unique-constraint violation 409 and anything else 500,
\* in the error envelope.
C20_StatusByClassElse500 ==
    resp.route = "error" =>
        /\ resp.status = CASE resp.err.name = "ValidationError" -> 400
                            [] resp.err.name = "UnauthorizedError" -> 401
                            [] resp.err.name = "ForbiddenError" -> 403
                            [] resp.err.name = "NotFoundError" -> 404
                            [] resp.err.code = "P2002" -> 409
                            [] OTHER -> 500
        /\ ErrorEnvelope

\* C20 (amended): every error is rendered in the error envelope with the
\* status of its class (400, 401, 403, 404), 409 for a unique-constraint
\* violation (P2002) and 404 for a missing record (P2025); any other error
\* gets the HTTP status it carries itself, and 500 only when it carries none.
C20_StatusByClassOrCarried ==
    resp.route = "error" =>
        /\ resp.status = CASE resp.err.name = "ValidationError" -> 400
                            [] resp.err.name = "UnauthorizedError" -> 401
                            [] resp.err.name = "ForbiddenError" -> 403
                            [] resp.err.name = "NotFoundError" -> 404
                            [] resp.err.code = "P2002" -> 409
                            [] resp.err.code = "P2025" -> 404
                            [] resp.err.statusCode # NoNum -> resp.err.statusCode
                            [] OTHER -> 500
        /\ ErrorEnvelope

\* a missing-record error of the store was rendered as 404
C20_Witness ==
    /\ resp.route = "error"
    /\ resp.err.code = "P2025"
    /\ resp.status = 404
    /\ ErrorEnvelope

(***************************************************************************)
(* C21: validation comes before the store.                                 *)
(***************************************************************************)
\* the handler's schema refused the request the last response answers
FailedValidation ==
    /\ resp # NoResp
    /\ "params" \in DOMAIN resp
    /\ \/ /\ resp.route = "POST /register"
          /\ RegisterError(resp.params.email, resp.params.password,
                           resp.params.name) # NULL
       \/ /\ resp.route = "POST /login"
          /\ LoginError(resp.params.email, resp.params.password) # NULL
       \/ /\ resp.route = "PUT /users/:userId"
          /\ resp.handler
          /\ ~UpdateUserBodyValid(resp.params.name, resp.params.role)
       \/ /\ resp.route = "GET /call-history/:agentId"
          /\ ~CallHistoryQueryValid(resp.params)

\* C21: a request that fails its handler's validation is answered with 400
\* and the handler has issued no store read and no store write for it.
C21_ValidationBeforeStore ==
    FailedValidation => resp.status = 400 /\ resp.reads = 0 /\ resp.writes = 0

\* an update whose body is refused although the addressed user exists
C21_Witness ==
    /\ FailedValidation
    /\ resp.route = "PUT /users/:userId"
    /\ resp.params.userId \in DOMAIN users
    /\ resp.status = 400 /\ resp.reads = 0

(***************************************************************************)
(* C22: the page bounds of the list routes.                                *)
(***************************************************************************)
\* a list route's handler answered the last request
ListAnswered ==
    /\ resp # NoResp
    /\ resp.route \in ListRoutes
    /\ resp.handler

LimitOutOfRange ==
    resp.params.limit # NoNum /\ (resp.params.limit < 1 \/ resp.params.limit > 100)
OffsetOutOfRange ==
    resp.params.offset # NoNum /\ resp.params.offset < 0

\* the limit and offset of the storage query (take, skip), which the
\* handlers echo in the pagination object
PageServed == resp.body.data.pagination

\* C22 as stated: a request whose limit lies outside [1,100] is served, with
\* the limit clamped into the range.
C22_OutOfRangeClamped ==
    (ListAnswered /\ LimitOutOfRange /\ ~OffsetOutOfRange) =>
        /\ resp.status = 200
        /\ PageServed.limit >= 1 /\ PageServed.limit <= 100

\* C22, amended: a request whose limit lies outside [1,100] or whose offset
\* is negative is refused with 400; every list request that is served
\* queries the store with the requested limit (20 when absent) and offset
\* (0 when absent), so with 1 <= limit <= 100 and offset >= 0.
C22_PageBoundsValidated ==
    ListAnswered =>
        /\ (LimitOutOfRange \/ OffsetOutOfRange) => resp.status = 400
        /\ resp.status = 200 =>
              /\ PageServed.limit = (IF resp.params.limit = NoNum THEN 20
                                     ELSE resp.params.limit)
              /\ PageServed.offset = (IF resp.params.offset = NoNum THEN 0
                                      ELSE resp.params.offset)
              /\ PageServed.limit >= 1 /\ PageServed.limit <= 100
              /\ PageServed.offset >= 0

\* a request for 101 rows, refused
C22_Witness ==
    /\ ListAnswered
    /\ resp.route = "GET /calls"
    /\ resp.params.limit = 101 /\ resp.params.offset = NoNum
    /\ resp.status = 400

(***************************************************************************)
(* C23: the agent loop is through before the call loop starts.             *)
(***************************************************************************)
\* C23: whenever a run is at a Call upsert or has issued one, the upsert of
\* every distinct agent its remaining records refer to has been awaited.
C23_AgentsBeforeCalls ==
    \A p \in Procs :
        LET s == sync[p]
        IN (s.pc = "calls" \/ s.j > 1) =>
              /\ s.i = Len(s.uniqueAgentIds) + 1
              /\ \A k \in 1..Len(s.filteredCalls) :
                    s.filteredCalls[k].agent_id \in SeqToSet(s.uniqueAgentIds)

\* a run about to issue its first Call upsert, after the upserts of two agents
C23_Witness ==
    /\ sync[1].pc = "calls"
    /\ sync[1].j = 1
    /\ Len(sync[1].uniqueAgentIds) = 2
    /\ sync[1].i = 3

(***************************************************************************)
(* C24: what callsSynced and callsUpdated count.                           *)
(***************************************************************************)
\* C24: a record whose upsert succeeded is counted in callsSynced exactly
\* when no Call row with its call_id existed before the upsert, and in
\* callsUpdated exactly when one existed.
C24_CountersTellCreation ==
    [][ \A p \in Procs :
          (Acting(p) /\ sync[p].pc = "calls"
           /\ sync'[p].errorCount = sync[p].errorCount) =>
             LET callId == sync[p].filteredCalls[sync[p].j].call_id
                 existed == callId \in DOMAIN calls
             IN /\ (sync'[p].syncedCount = sync[p].syncedCount + 1) <=> ~existed
                /\ (sync'[p].updatedCount = sync[p].updatedCount + 1) <=> existed ]_vars

(***************************************************************************)
(* C25: paging through a call list.                                        *)
(***************************************************************************)
RECURSIVE ItemsOf(_)
ItemsOf(pages) ==
    IF pages = <<>> THEN <<>> ELSE pages[1].items \o ItemsOf(Tail(pages))

\* C25: the pages at consecutive offsets over an unchanged store hold every
\* matching call exactly once.
C25_PagingExactlyOnce ==
    (resp # NoResp /\ resp.route = "GET /calls, page by page") =>
        LET items == ItemsOf(resp.body.pages)
        IN /\ SeqToSet(items) = CallsWhere(calls, resp.params)
           /\ Len(items) = Cardinality(CallsWhere(calls, resp.params))

(***************************************************************************)
(* C26: the drain loop ends.                                               *)
(***************************************************************************)
\* ceil(n / limit)
CeilDiv(n, limit) == (n + limit - 1) \div limit

\* the page requests of a drain that was not failed by the source
DrainEnded(requests, n) ==
    /\ Len(requests) = (n \div PageLimit) + 1
    /\ Len(requests) <= CeilDiv(n, PageLimit) + 1
    /\ (n % PageLimit = 0) => requests[Len(requests)].page = <<>>

\* C26: over a source of n records that honours the cursor the drain returns
\* all n records after floor(n / limit) + 1 page requests, which is at most
\* ceil(n / limit) + 1; when n is a multiple of limit the last request
\* returns an empty page.  A drain the source fails ends no later.
C26_DrainTerminates ==
    LET n == Len(extCalls)
    IN /\ \A p \in Procs :
            sync[p].pc # "idle" =>
                /\ Len(sync[p].fetched) = n
                /\ DrainEnded(sync[p].requests, n)
       /\ (resp # NoResp /\ resp.route = "sync-calls" /\ "requests" \in DOMAIN resp) =>
            IF resp.status = 200 /\ resp.requests # <<>>
            THEN DrainEnded(resp.requests, n)
            ELSE Len(resp.requests) <= CeilDiv(n, PageLimit) + 1

\* a source holding exactly one full page: a second, empty page was asked for
C26_Witness ==
    /\ Len(extCalls) = PageLimit
    /\ sync[1].pc # "idle"
    /\ Len(sync[1].requests) = 2
    /\ sync[1].requests[2].page = <<>>
    /\ Len(sync[1].fetched) = PageLimit

(***************************************************************************)
(* C27: what POST /sync-calls changes in an existing Agent row.            *)
(***************************************************************************)
\* C27: a step of a POST /sync-calls run removes no Agent row and changes
\* nothing but agent_name (and updated_at, which the model's rows do not
\* carry) in a row that exists; an INACTIVE agent stays INACTIVE.
C27_SyncKeepsStatus ==
    [][ \A p \in Procs :
          Acting(p) =>
             \A a \in DOMAIN agents :
                /\ a \in DOMAIN agents'
                /\ agents'[a].status = agents[a].status
                /\ agents'[a] = [agents[a] EXCEPT !.agent_name = agents'[a].agent_name]
      ]_vars

\* a run is through its agent loop, no other request was answered since it
\* started, and a1, which its records refer to, is INACTIVE under the name
\* the run wrote
C27_Witness ==
    /\ sync[1].pc = "calls"
    /\ resp = NoResp
    /\ "a1" \in SeqToSet(sync[1].uniqueAgentIds)
    /\ "a1" \in DOMAIN agents
    /\ agents["a1"].status = "INACTIVE"
    /\ agents["a1"].agent_name = AgentNameFor(sync[1].agentMap, "a1")
    /\ agents["a1"].agent_name = "Agent a1"

(***************************************************************************)
(* C28: tokens of demoted and deleted administrators.                      *)
(***************************************************************************)
\* the request at the route carries a token that was issued to an ADMIN who
\* has since been demoted or deleted
StaleAdminToken ==
    /\ req.via = "token"
    /\ req.user.role = "ADMIN"
    /\ \/ req.user.id \notin DOMAIN users
       \/ users[req.user.id].role # "ADMIN"

\* C28: a request to a user-management route that carries the token of an
\* administrator who was demoted or deleted after the token was issued is
\* rejected by the ADMIN gate.
C28_StaleTokenRejected ==
    [][ (UserRouteStep /\ StaleAdminToken) =>
            /\ ~resp'.handler
            /\ resp'.status \in {401, 403}
            /\ users' = users ]_vars

(***************************************************************************)
(* GET /stats: four store queries issued together by Promise.all, each one *)
(* atomic, answered in any order, with other requests' writes in between.  *)
(***************************************************************************)
StatsQueries == {"totalAgents", "activeAgents", "totalCalls", "totalCost"}

\* _sum: { <field>: true } over the rows ids; null (NoNum) over no rows
RECURSIVE SumField(_, _, _)
SumField(cls, ids, field) ==
    IF ids = {} THEN NoNum
    ELSE LET c == CHOOSE x \in ids : TRUE
             rest == SumField(cls, ids \ {c}, field)
         IN cls[c][field] + (IF rest = NoNum THEN 0 ELSE rest)

\* what one of the four queries returns over the store as it is now
StatsQueryResult(q) ==
    CASE q = "totalAgents" -> Cardinality(DOMAIN agents)
      [] q = "activeAgents" -> Cardinality({a \in DOMAIN agents : agents[a].status = "ACTIVE"})
      [] q = "totalCalls" -> Cardinality(DOMAIN calls)
      [] q = "totalCost" -> SumField(calls, DOMAIN calls, "cost")

StatsStart ==
    /\ stats.pc = "idle"
    /\ stats' = [NoStats EXCEPT !.pc = "querying"]
    /\ UNCHANGED <<agents, calls, users, now, sync, prev, runs, extCalls, tokens, req,
                   boots, creating, resp>>

StatsQuery ==
    /\ stats.pc = "querying"
    /\ \E q \in StatsQueries \ stats.done :
        stats' = [stats EXCEPT !.done = @ \cup {q}, ![q] = StatsQueryResult(q)]
    /\ UNCHANGED <<agents, calls, users, now, sync, prev, runs, extCalls, tokens, req,
                   boots, creating, resp>>

StatsRespond ==
    /\ stats.pc = "querying"
    /\ stats.done = StatsQueries
    /\ resp' = [route |-> "GET /stats", status |-> 200,
                body |-> [success |-> TRUE,
                          data |-> [agents |-> [total |-> stats.totalAgents,
                                                active |-> stats.activeAgents,
                                                inactive |-> stats.totalAgents
                                                               - stats.activeAgents],
                                    calls |-> [total |-> stats.totalCalls],
                                    cost |-> [total |-> IF stats.totalCost = NoNum THEN 0
                                                        ELSE stats.totalCost]]]]
    /\ stats' = NoStats
    /\ UNCHANGED <<agents, calls, users, now, sync, prev, runs, extCalls, tokens, req,
                   boots, creating>>

InitStats ==
    /\ agents = Put(EmptyFn, "a1", [agent_name |-> "Alpha", status |-> "ACTIVE"])
    /\ \E k \in 0..Len(ListCallRecords) : calls = StoredCalls(k)
    /\ users = EmptyFn
    /\ now = 0
    /\ sync = [p \in Procs |-> IdleSync]
    /\ prev = NoRun
    /\ runs = 0
    /\ extCalls = <<>>
    /\ tokens = {}
    /\ req = NoReq
    /\ boots = 0
    /\ creating = [p \in Procs |-> NoCreate]
    /\ stats = NoStats
    /\ resp = NoResp

NextStats ==
    \/ StatsStart
    \/ StatsQuery
    \/ StatsRespond
    \/ CreateAgent
    \/ UpdateAgent
    \/ DeleteAgent

SpecStats == InitStats /\ [][NextStats]_vars

\* C29: in every GET /stats response agents.inactive is non-negative and
\* active does not exceed total, as in the counts of one single store state,
\* also when agents are created or change status while the request's count
\* queries are under way.
C29_StatsFromOneState ==
    (resp # NoResp /\ resp.route = "GET /stats") =>
        LET a == resp.body.data.agents
        IN /\ a.inactive >= 0
           /\ a.active <= a.total
           /\ a.inactive = a.total - a.active

(***************************************************************************)
(* The analytics routes.  JavaScript numbers: a division by 0 yields NaN   *)
(* (0 / 0) and JSON.stringify renders NaN as null.  Values with two        *)
(* decimals (Math.round(x * 100) / 100) are carried in hundredths.         *)
(***************************************************************************)
NaN == 0 - 2

\* Math.round(n / d) over non-negative n
RoundDiv(n, d) == IF d = 0 THEN NaN ELSE (2 * n + d) \div (2 * d)

\* sum || 0
OrZero(x) == IF x = NoNum THEN 0 ELSE x

\* res.json of a number
JsonNumber(x) == IF x = NaN THEN NoNum ELSE x

\* the window of GET /analytics/calls when no date is given: 30 days, in ticks
AnalyticsWindow == 2000

\* analyticsDateRangeSchema
AnalyticsQueryValid(q) == q.agentId = NULL \/ Len(q.agentId) > 0

AnalyticsQueries ==
    [agentId : {NULL, "", "a1", "a9"}, startDate : {NoNum, 1500, 5000}, endDate : {NoNum, 3000}]

\* where: agent_id and start_timestamp { gte, lte }
AnalyticsWhere(cls, q) ==
    {c \in DOMAIN cls :
        /\ Truthy(q.agentId) => cls[c].agent_id = q.agentId
        /\ q.startDate # NoNum => cls[c].start_timestamp >= q.startDate
        /\ q.endDate # NoNum => cls[c].start_timestamp <= q.endDate}

\* the counts and sums over the rows ids, and what the overview derives
OverviewMetrics(cls, ids) ==
    LET totalCalls == Cardinality(ids)
        successfulCalls == Cardinality({c \in ids : cls[c].call_successful})
        totalCost == OrZero(SumField(cls, ids, "cost"))
        totalDuration == OrZero(SumField(cls, ids, "duration_seconds"))
    IN [totalCalls |-> totalCalls,
        successfulCalls |-> successfulCalls,
        totalCost |-> totalCost,
        totalDurationSeconds |-> totalDuration,
        successRate |-> JsonNumber(IF totalCalls > 0
                                   THEN RoundDiv(successfulCalls * 10000, totalCalls)
                                   ELSE 0),
        avgCost |-> JsonNumber(IF totalCalls > 0 THEN RoundDiv(totalCost * 100, totalCalls)
                               ELSE 0),
        avgDurationSeconds |-> JsonNumber(IF totalCalls > 0
                                          THEN RoundDiv(totalDuration, totalCalls)
                                          ELSE 0)]

\* GET /analytics/overview
AnalyticsOverviewHandler(ags, cls, q, production) ==
    IF ~AnalyticsQueryValid(q)
    THEN errorHandler(ValidationError("invalid query"), production)
    ELSE Ok([success |-> TRUE, data |-> OverviewMetrics(cls, AnalyticsWhere(cls, q))])

\* GET /analytics/agents: the metrics of every ACTIVE agent; the agentId of
\* the query is not used
AnalyticsAgentsHandler(ags, cls, q, production) ==
    IF ~AnalyticsQueryValid(q)
    THEN errorHandler(ValidationError("invalid query"), production)
    ELSE Ok([success |-> TRUE,
             data |-> [a \in {x \in DOMAIN ags : ags[x].status = "ACTIVE"} |->
                          OverviewMetrics(cls,
                              AnalyticsWhere(cls, [q EXCEPT !.agentId = a]))]])

\* GET /analytics/calls: the summary over the window, 30 days up to now when
\* the query gives no dates
AnalyticsCallsHandler(ags, cls, q, production) ==
    IF ~AnalyticsQueryValid(q)
    THEN errorHandler(ValidationError("invalid query"), production)
    ELSE LET end == IF q.endDate # NoNum THEN q.endDate ELSE now
             start == IF q.startDate # NoNum THEN q.startDate ELSE end - AnalyticsWindow
             ids == AnalyticsWhere(cls, [q EXCEPT !.startDate = start, !.endDate = end])
             totalCalls == Cardinality(ids)
             successfulCalls == Cardinality({c \in ids : cls[c].call_successful})
             totalCost == OrZero(SumField(cls, ids, "cost"))
             totalDuration == OrZero(SumField(cls, ids, "duration_seconds"))
         IN Ok([success |-> TRUE,
                data |-> [dateRange |-> [start |-> start, end |-> end],
                          summary |->
                            [totalCalls |-> totalCalls,
                             successfulCalls |-> successfulCalls,
                             totalCost |-> totalCost,
                             totalDurationSeconds |-> totalDuration,
                             successRate |-> JsonNumber(IF totalCalls > 0
                                                        THEN RoundDiv(successfulCalls * 100,
                                                                      totalCalls)
                                                        ELSE 0),
                             avgCost |-> JsonNumber(RoundDiv(totalCost * 100, totalCalls)),
                             avgDurationSeconds |->
                                 JsonNumber(IF totalCalls > 0
                                            THEN RoundDiv(totalDuration, totalCalls)
                                            ELSE 0)]]])

GetAnalytics ==
    /\ req.stage = "authed"
    /\ \E route \in {"overview", "agents", "calls"}, q \in AnalyticsQueries :
        DashboardRespond("GET /analytics/" \o route, q,
            CASE route = "overview" ->
                    AnalyticsOverviewHandler(agents, calls, q, req.production)
              [] route = "agents" ->
                    AnalyticsAgentsHandler(agents, calls, q, req.production)
              [] route = "calls" ->
                    AnalyticsCallsHandler(agents, calls, q, req.production))
    /\ UNCHANGED <<agents, calls, users, now, sync, prev, runs, extCalls, tokens, boots,
                   creating, stats>>

NextAnalytics ==
    \/ Authenticate
    \/ GetAnalytics
    \/ DashboardDeleteAgent

SpecAnalytics == InitList /\ [][NextAnalytics]_vars

\* the averages and rates of one block of metrics are all 0
ZeroAverages(m) ==
    m.successRate = 0 /\ m.avgCost = 0 /\ m.avgDurationSeconds = 0

\* C30: when no call matches the filter, every average and rate of an
\* analytics response is 0.
C30_NoCallsAllZero ==
    (resp # NoResp /\ resp.status = 200) =>
        /\ resp.route = "GET /analytics/overview" =>
              (resp.body.data.totalCalls = 0 => ZeroAverages(resp.body.data))
        /\ resp.route = "GET /analytics/calls" =>
              (resp.body.data.summary.totalCalls = 0 =>
                  ZeroAverages(resp.body.data.summary))
        /\ resp.route = "GET /analytics/agents" =>
              \A a \in DOMAIN resp.body.data :
                  resp.body.data[a].totalCalls = 0 => ZeroAverages(resp.body.data[a])

\* what the guarded divisions give: the averages and rates of the overview
\* and of the per-agent metrics are all 0 over no calls
AnalyticsGuardedZero ==
    (resp # NoResp /\ resp.status = 200) =>
        /\ resp.route = "GET /analytics/overview" =>
              (resp.body.data.totalCalls = 0 => ZeroAverages(resp.body.data))
        /\ resp.route = "GET /analytics/agents" =>
              \A a \in DOMAIN resp.body.data :
                  resp.body.data[a].totalCalls = 0 => ZeroAverages(resp.body.data[a])

====
